---- MODULE Spec2Model ----
(***************************************************************************)
(* Jobly: the entity access layer (Company, Job, User), the partial-update *)
(* builder and the filtered queries, over a relational store.              *)
(*                                                                         *)
(* Encoding of values.  A text the code pattern-matches or sorts (company  *)
(* name, job title) is a sequence of one-character strings.  A nullable    *)
(* column and an optional argument hold <<>> for NULL / undefined and <<v>>*)
(* for the value v.  A table is a set of rows; a row is a record over the  *)
(* physical column names.  inflight holds the calls that have sent a query *)
(* and have not returned yet, each with what it has read so far; http is   *)
(* the last HTTP request with the status of its response.                  *)
(***************************************************************************)
EXTENDS Integers, Sequences, FiniteSets, TLC

VARIABLES companies, jobs, users, applications, nextJobId, resp, inflight,
          http

vars ==
  <<companies, jobs, users, applications, nextJobId, resp, inflight, http>>

store == <<companies, jobs, users, applications, nextJobId>>

(***************************************************************************)
(* Bounds                                                                  *)
(***************************************************************************)
MaxJobId == 1

MaxNum == 2

MaxFields == 2

MaxPatLen == 2

\* the calls that can be between two of their queries at the same time
MaxInflight == 1

\* the callers whose calls can run at the same time
MaxCallers == 2

(***************************************************************************)
(* Values                                                                  *)
(***************************************************************************)
Null == <<>>

Undefined == <<>>

Some(v) == <<v>>

Range(s) == {s[i] : i \in 1..Len(s)}

\* character codes, for ORDER BY
Code(c) ==
  CASE c = "%" -> 37 [] c = "1" -> 49 [] c = "2" -> 50 [] c = "3" -> 51
    [] c = "C" -> 67 [] c = "J" -> 74 [] c = "N" -> 78 [] c = "_" -> 95
    [] c = "c" -> 99 [] c = "e" -> 101 [] c = "j" -> 106 [] c = "n" -> 110
    [] c = "w" -> 119 [] OTHER -> 0

\* case folding, for ILIKE
Lower(c) ==
  CASE c = "C" -> "c" [] c = "J" -> "j" [] c = "N" -> "n" [] OTHER -> c

RECURSIVE StrLess(_, _)
StrLess(s, t) ==
  IF t = <<>> THEN FALSE
  ELSE IF s = <<>> THEN TRUE
  ELSE IF Code(Head(s)) # Code(Head(t)) THEN Code(Head(s)) < Code(Head(t))
  ELSE StrLess(Tail(s), Tail(t))

StrLeq(s, t) == s = t \/ StrLess(s, t)

\* s contains sub as a contiguous substring, letter case ignored
Contains(s, sub) ==
  \E i \in 0..(Len(s) - Len(sub)) :
    \A k \in 1..Len(sub) : Lower(s[i + k]) = Lower(sub[k])

(***************************************************************************)
(* Responses: what the last call returned or threw                         *)
(***************************************************************************)
\* no call made yet
NoResp ==
  [op |-> "none", outcome |-> "none", args |-> <<>>, result |-> "none",
   queries |-> 0]

\* no HTTP request made yet
NoRequest == [route |-> "none", status |-> 0, req |-> <<>>]

Ok(op, args, result, queries) ==
  [op |-> op, args |-> args, outcome |-> "ok", result |-> result,
   queries |-> queries]

Throw(op, args, err, queries) ==
  [op |-> op, args |-> args, outcome |-> err, result |-> "none",
   queries |-> queries]

(***************************************************************************)
(* The relational store: the statements the models send to db.query        *)
(***************************************************************************)
CompanyColumns == {"handle", "name", "description", "num_employees", "logo_url"}

JobColumns == {"id", "title", "salary", "equity", "company_handle"}

\* NUMERIC value of an equity text, in thousandths
NumericValue(e) ==
  CASE e = "0" -> 0 [] e = "0.1" -> 100 [] e = "0.2" -> 200 [] e = "0.5" -> 500
    [] OTHER -> 0

\* text ILIKE pattern: % is any run of characters, _ any one character,
\* every other character matches itself with letter case ignored
RECURSIVE ILike(_, _)
ILike(s, p) ==
  IF p = <<>> THEN s = <<>>
  ELSE IF Head(p) = "%"
       THEN ILike(s, Tail(p)) \/ (s # <<>> /\ ILike(Tail(s), p))
  ELSE IF Head(p) = "_"
       THEN s # <<>> /\ ILike(Tail(s), Tail(p))
  ELSE s # <<>> /\ Lower(Head(s)) = Lower(Head(p)) /\ ILike(Tail(s), Tail(p))

\* one predicate of a WHERE clause; a comparison with NULL is not true
EvalCond(row, c, params) ==
  CASE c.cmp = "=" -> row[c.col] = params[c.pos]
    [] c.cmp = ">=" -> row[c.col] # Null /\ row[c.col][1] >= params[c.pos]
    [] c.cmp = "<=" -> row[c.col] # Null /\ row[c.col][1] <= params[c.pos]
    [] c.cmp = "> 0" -> row[c.col] # Null /\ NumericValue(row[c.col][1]) > 0
    [] c.cmp = "ILIKE" -> ILike(row[c.col], params[c.pos])
    [] OTHER -> FALSE

\* SELECT ... FROM table WHERE conds[1] AND conds[2] AND ...
SqlSelect(table, conds, params) ==
  {r \in table : \A i \in 1..Len(conds) : EvalCond(r, conds[i], params)}

\* ORDER BY col: every order of the rows that ascends by col
OrderBy(rows, col) ==
  {s \in [1..Cardinality(rows) -> rows] :
     /\ \A i, j \in DOMAIN s : i # j => s[i] # s[j]
     /\ \A i, j \in DOMAIN s : i < j => StrLeq(s[i][col], s[j][col])}

\* INSERT INTO table: fails on a duplicate primary key
SqlInsert(table, pk, row) ==
  IF \E r \in table : r[pk] = row[pk]
  THEN [err |-> TRUE, table |-> table]
  ELSE [err |-> FALSE, table |-> table \cup {row}]

\* the row after SET "col"=$pos, ...
SetRow(row, setCols, params) ==
  [c \in DOMAIN row |->
     IF \E i \in 1..Len(setCols) : setCols[i].col = c
     THEN params[setCols[CHOOSE i \in 1..Len(setCols) : setCols[i].col = c].pos]
     ELSE row[c]]

\* UPDATE table SET setCols WHERE keyCol = $keyPos RETURNING ...
\* fails on an empty SET list, on a column the table does not have and on a
\* duplicate primary key
SqlUpdate(table, columns, pk, setCols, keyCol, keyPos, params) ==
  LET matched == {r \in table : r[keyCol] = params[keyPos]}
      updated == {SetRow(r, setCols, params) : r \in matched}
      after == (table \ matched) \cup updated
  IN IF Len(setCols) = 0 \/ \E i \in 1..Len(setCols) : setCols[i].col \notin columns
     THEN [err |-> TRUE, table |-> table, rows |-> {}]
     ELSE IF Cardinality({r[pk] : r \in after}) # Cardinality(table)
     THEN [err |-> TRUE, table |-> table, rows |-> {}]
     ELSE [err |-> FALSE, table |-> after, rows |-> updated]

\* DELETE FROM table WHERE keyCol = v RETURNING ...
SqlDelete(table, keyCol, v) ==
  LET matched == {r \in table : r[keyCol] = v}
  IN [table |-> table \ matched, rows |-> matched]

\* a statement that takes away a key that rows of another table refer to is
\* refused by the store (REFERENCES without ON UPDATE CASCADE)
LosesReferencedKey(table, after, pk, referred) ==
  \E k \in referred :
    k \in {r[pk] : r \in table} /\ k \notin {r[pk] : r \in after}

(***************************************************************************)
(* helpers/sql: sqlForPartialUpdate                                        *)
(* dataToUpdate is the object as the sequence of its <<key, value>> pairs  *)
(* in iteration order; setCols is the text `"col"=$pos, ...` as the        *)
(* sequence of its assignments.                                            *)
(***************************************************************************)
Keys(data) == [i \in 1..Len(data) |-> data[i][1]]

Values(data) == [i \in 1..Len(data) |-> data[i][2]]

\* the builder numbering the positions from 0
sqlForPartialUpdateZeroBased(dataToUpdate, jsToSql) ==
  LET keys == Keys(dataToUpdate)
  IN IF Len(keys) = 0
     THEN [err |-> "BadRequest", setCols |-> <<>>, values |-> <<>>]
     ELSE [err |-> "none",
           setCols |-> [idx \in 1..Len(keys) |->
                          [col |-> IF keys[idx] \in DOMAIN jsToSql
                                   THEN jsToSql[keys[idx]] ELSE keys[idx],
                           pos |-> idx - 1]],
           values |-> Values(dataToUpdate)]

\* the builder without the check for an empty object
sqlForPartialUpdateNoEmptyCheck(dataToUpdate, jsToSql) ==
  LET keys == Keys(dataToUpdate)
  IN [err |-> "none",
      setCols |-> [idx \in 1..Len(keys) |->
                     [col |-> IF keys[idx] \in DOMAIN jsToSql
                              THEN jsToSql[keys[idx]] ELSE keys[idx],
                      pos |-> idx]],
      values |-> Values(dataToUpdate)]

sqlForPartialUpdate(dataToUpdate, jsToSql) ==
  LET keys == Keys(dataToUpdate)
  IN IF Len(keys) = 0
     THEN [err |-> "BadRequest", setCols |-> <<>>, values |-> <<>>]
     ELSE [err |-> "none",
           setCols |-> [idx \in 1..Len(keys) |->
                          [col |-> IF keys[idx] \in DOMAIN jsToSql
                                   THEN jsToSql[keys[idx]] ELSE keys[idx],
                           pos |-> idx]],
           values |-> Values(dataToUpdate)]

(***************************************************************************)
(* models/company                                                          *)
(***************************************************************************)
\* the mapping with the logoUrl entry forgotten
CompanyJsToSqlNoLogoUrl == [numEmployees |-> "num_employees"]

CompanyJsToSql == [numEmployees |-> "num_employees", logoUrl |-> "logo_url"]

\* RETURNING handle, name, description, num_employees AS "numEmployees", ...
CompanyProj(r) ==
  [handle |-> r.handle, name |-> r.name, description |-> r.description,
   numEmployees |-> r.num_employees, logoUrl |-> r.logo_url]

\* Company.create without the duplicate check
CompanyCreateNoDuplicateCheck(data) ==
  LET row == [handle |-> data.handle, name |-> data.name,
              description |-> data.description,
              num_employees |-> data.numEmployees, logo_url |-> data.logoUrl]
      ins == SqlInsert(companies, "handle", row)
  IN /\ IF ins.err
        THEN /\ resp' = Throw("Company.create", <<data>>, "Fault", 1)
             /\ UNCHANGED companies
        ELSE /\ companies' = ins.table
             /\ resp' = Ok("Company.create", <<data>>, CompanyProj(row), 1)
     /\ UNCHANGED <<jobs, users, applications, nextJobId>>

CompanyCreate(data) ==
  LET duplicateCheck ==
        SqlSelect(companies, <<[col |-> "handle", cmp |-> "=", pos |-> 1]>>,
                  <<data.handle>>)
      row == [handle |-> data.handle, name |-> data.name,
              description |-> data.description,
              num_employees |-> data.numEmployees, logo_url |-> data.logoUrl]
      ins == SqlInsert(companies, "handle", row)
  IN /\ IF duplicateCheck # {}
        THEN /\ resp' = Throw("Company.create", <<data>>, "BadRequest", 1)
             /\ UNCHANGED companies
        ELSE IF ins.err
        THEN /\ resp' = Throw("Company.create", <<data>>, "Fault", 2)
             /\ UNCHANGED companies
        ELSE /\ companies' = ins.table
             /\ resp' = Ok("Company.create", <<data>>, CompanyProj(row), 2)
     /\ UNCHANGED <<jobs, users, applications, nextJobId>>

\* Company.create up to its first query: a company with the handle makes the
\* call throw BadRequest; otherwise the call goes on to its INSERT
CompanyCreateDuplicateCheck(caller, data) ==
  LET duplicateCheck ==
        SqlSelect(companies, <<[col |-> "handle", cmp |-> "=", pos |-> 1]>>,
                  <<data.handle>>)
  IN /\ \A call \in inflight : call.caller # caller
     /\ IF duplicateCheck # {}
        THEN /\ resp' = Throw("Company.create", <<data>>, "BadRequest", 1)
             /\ UNCHANGED inflight
        ELSE /\ inflight' = inflight \cup
                  {[op |-> "Company.create", caller |-> caller,
                    data |-> data]}
             /\ UNCHANGED resp
     /\ UNCHANGED store

\* Company.create from its INSERT on: the store refuses a second row with the
\* handle, and the store's error leaves the call as it is
CompanyCreateInsert(call) ==
  LET data == call.data
      row == [handle |-> data.handle, name |-> data.name,
              description |-> data.description,
              num_employees |-> data.numEmployees, logo_url |-> data.logoUrl]
      ins == SqlInsert(companies, "handle", row)
  IN /\ call \in inflight
     /\ call.op = "Company.create"
     /\ IF ins.err
        THEN /\ resp' = Throw("Company.create", <<data>>, "Fault", 2)
             /\ UNCHANGED companies
        ELSE /\ companies' = ins.table
             /\ resp' = Ok("Company.create", <<data>>, CompanyProj(row), 2)
     /\ inflight' = inflight \ {call}
     /\ UNCHANGED <<jobs, users, applications, nextJobId>>

\* Company.get returning the row under its column names
CompanyGetRawRow(handle) ==
  LET companyRes ==
        SqlSelect(companies, <<[col |-> "handle", cmp |-> "=", pos |-> 1]>>,
                  <<handle>>)
  IN /\ resp' = IF companyRes = {}
                THEN Throw("Company.get", <<handle>>, "NotFound", 1)
                ELSE Ok("Company.get", <<handle>>,
                        CHOOSE r \in companyRes : TRUE, 1)
     /\ UNCHANGED store

CompanyGet(handle) ==
  LET companyRes ==
        SqlSelect(companies, <<[col |-> "handle", cmp |-> "=", pos |-> 1]>>,
                  <<handle>>)
  IN /\ resp' = IF companyRes = {}
                THEN Throw("Company.get", <<handle>>, "NotFound", 1)
                ELSE Ok("Company.get", <<handle>>,
                        CompanyProj(CHOOSE r \in companyRes : TRUE), 1)
     /\ UNCHANGED store

\* update that sends the statement before the builder's check of the data
CompanyUpdateStatementFirst(handle, data) ==
  LET b == sqlForPartialUpdate(data, CompanyJsToSql)
      handleVarIdx == Len(b.values) + 1
      result == SqlUpdate(companies, CompanyColumns, "handle", b.setCols,
                          "handle", handleVarIdx, Append(b.values, handle))
  IN /\ IF handle \notin {r.handle : r \in companies}
        THEN /\ resp' = Throw("Company.update", <<handle, data>>, "NotFound", 1)
             /\ UNCHANGED companies
        ELSE IF b.err # "none"
        THEN /\ resp' = Throw("Company.update", <<handle, data>>, b.err, 1)
             /\ UNCHANGED companies
        ELSE IF result.err
        THEN /\ resp' = Throw("Company.update", <<handle, data>>, "Fault", 1)
             /\ UNCHANGED companies
        ELSE /\ resp' = Ok("Company.update", <<handle, data>>,
                           CompanyProj(CHOOSE r \in result.rows : TRUE), 1)
             /\ companies' = result.table
     /\ UNCHANGED <<jobs, users, applications, nextJobId>>

CompanyUpdate(handle, data) ==
  LET b == sqlForPartialUpdate(data, CompanyJsToSql)
      handleVarIdx == Len(b.values) + 1
      result == SqlUpdate(companies, CompanyColumns, "handle", b.setCols,
                          "handle", handleVarIdx, Append(b.values, handle))
  IN /\ IF b.err # "none"
        THEN /\ resp' = Throw("Company.update", <<handle, data>>, b.err, 0)
             /\ UNCHANGED companies
        ELSE IF \/ result.err
              \/ LosesReferencedKey(companies, result.table, "handle",
                                    {j.company_handle : j \in jobs})
        THEN /\ resp' = Throw("Company.update", <<handle, data>>, "Fault", 1)
             /\ UNCHANGED companies
        ELSE IF result.rows = {}
        THEN /\ resp' = Throw("Company.update", <<handle, data>>, "NotFound", 1)
             /\ companies' = result.table
        ELSE /\ resp' = Ok("Company.update", <<handle, data>>,
                           CompanyProj(CHOOSE r \in result.rows : TRUE), 1)
             /\ companies' = result.table
     /\ UNCHANGED <<jobs, users, applications, nextJobId>>

\* an update that builds its statement from the row it has read: the SET
\* list holds the row's other fields too
CompanyUpdateBuildWholeRow(caller, handle, data) ==
  LET matched == {r \in companies : r.handle = handle}
      proj == CompanyProj(CHOOSE r \in matched : TRUE)
      rest == IF matched = {} THEN {}
              ELSE {f \in {"name", "description", "numEmployees", "logoUrl"} :
                      \A i \in DOMAIN data : data[i][1] # f}
      RECURSIVE Pairs(_)
      Pairs(fs) == IF fs = {} THEN <<>>
                   ELSE LET f == CHOOSE x \in fs : TRUE
                        IN << <<f, proj[f]>> >> \o Pairs(fs \ {f})
      b == sqlForPartialUpdate(data \o Pairs(rest), CompanyJsToSql)
  IN /\ \A call \in inflight : call.caller # caller
     /\ IF Len(data) = 0
        THEN /\ resp' = Throw("Company.update", <<handle, data>>,
                              "BadRequest", 0)
             /\ UNCHANGED inflight
        ELSE /\ inflight' = inflight \cup
                  {[op |-> "Company.update", caller |-> caller,
                    key |-> handle, data |-> data, b |-> b]}
             /\ UNCHANGED resp
     /\ UNCHANGED store

\* Company.update up to its statement: the builder refuses empty data;
\* otherwise the call holds the SET list and the values and goes on to send
\* its UPDATE
CompanyUpdateBuild(caller, handle, data) ==
  LET b == sqlForPartialUpdate(data, CompanyJsToSql)
  IN /\ \A call \in inflight : call.caller # caller
     /\ IF b.err # "none"
        THEN /\ resp' = Throw("Company.update", <<handle, data>>, b.err, 0)
             /\ UNCHANGED inflight
        ELSE /\ inflight' = inflight \cup
                  {[op |-> "Company.update", caller |-> caller,
                    key |-> handle, data |-> data, b |-> b]}
             /\ UNCHANGED resp
     /\ UNCHANGED store

\* Company.update from its statement on: the one UPDATE, on the table as it
\* is now
CompanyUpdateExecute(call) ==
  LET b == call.b
      handleVarIdx == Len(b.values) + 1
      result == SqlUpdate(companies, CompanyColumns, "handle", b.setCols,
                          "handle", handleVarIdx,
                          Append(b.values, call.key))
  IN /\ call \in inflight
     /\ call.op = "Company.update"
     /\ IF \/ result.err
           \/ LosesReferencedKey(companies, result.table, "handle",
                                 {j.company_handle : j \in jobs})
        THEN /\ resp' = Throw("Company.update", <<call.key, call.data>>,
                              "Fault", 1)
             /\ UNCHANGED companies
        ELSE IF result.rows = {}
        THEN /\ resp' = Throw("Company.update", <<call.key, call.data>>,
                              "NotFound", 1)
             /\ companies' = result.table
        ELSE /\ resp' = Ok("Company.update", <<call.key, call.data>>,
                           CompanyProj(CHOOSE r \in result.rows : TRUE), 1)
             /\ companies' = result.table
     /\ inflight' = inflight \ {call}
     /\ UNCHANGED <<jobs, users, applications, nextJobId>>

\* jobs.company_handle REFERENCES companies ON DELETE CASCADE
JobsAfterCompanyDelete(removed) ==
  {j \in jobs : j.company_handle \notin {r.handle : r \in removed}}

\* applications.job_id REFERENCES jobs ON DELETE CASCADE
ApplicationsAfterJobDelete(jobsLeft) ==
  {a \in applications : a.job_id \in {j.id : j \in jobsLeft}}

\* Company.remove without the check of the returned row
CompanyRemoveNoRowCheck(handle) ==
  LET result == SqlDelete(companies, "handle", handle)
  IN /\ companies' = result.table
     /\ jobs' = JobsAfterCompanyDelete(result.rows)
     /\ applications' =
          ApplicationsAfterJobDelete(JobsAfterCompanyDelete(result.rows))
     /\ resp' = Ok("Company.remove", <<handle>>, "undefined", 1)
     /\ UNCHANGED <<users, nextJobId>>

CompanyRemove(handle) ==
  LET result == SqlDelete(companies, "handle", handle)
  IN /\ companies' = result.table
     /\ jobs' = JobsAfterCompanyDelete(result.rows)
     /\ applications' =
          ApplicationsAfterJobDelete(JobsAfterCompanyDelete(result.rows))
     /\ resp' = IF result.rows = {}
                THEN Throw("Company.remove", <<handle>>, "NotFound", 1)
                ELSE Ok("Company.remove", <<handle>>, "undefined", 1)
     /\ UNCHANGED <<users, nextJobId>>

\* Company.findAll refusing also equal bounds
CompanyFindAllRefusingEqual(filters) ==
  LET name == filters.name
      minEmployees == filters.minEmployees
      maxEmployees == filters.maxEmployees
      params1 == IF minEmployees # Undefined THEN <<minEmployees[1]>> ELSE <<>>
      conds1 == IF minEmployees # Undefined
                THEN <<[col |-> "num_employees", cmp |-> ">=",
                        pos |-> Len(params1)]>>
                ELSE <<>>
      params2 == IF maxEmployees # Undefined
                 THEN Append(params1, maxEmployees[1]) ELSE params1
      conds2 == IF maxEmployees # Undefined
                THEN Append(conds1, [col |-> "num_employees", cmp |-> "<=",
                                     pos |-> Len(params2)])
                ELSE conds1
      \* if (name): undefined and the empty text are falsy
      nameGiven == name # Undefined /\ name[1] # <<>>
      params == IF nameGiven
                THEN Append(params2, <<"%">> \o name[1] \o <<"%">>)
                ELSE params2
      filterConditions ==
                IF nameGiven
                THEN Append(conds2, [col |-> "name", cmp |-> "ILIKE",
                                     pos |-> Len(params)])
                ELSE conds2
  IN /\ IF /\ minEmployees # Undefined
           /\ maxEmployees # Undefined
           /\ minEmployees[1] >= maxEmployees[1]
        THEN resp' = Throw("Company.findAll", <<filters>>, "BadRequest", 0)
        ELSE \E rows \in OrderBy(SqlSelect(companies, filterConditions, params),
                                 "name") :
               resp' = Ok("Company.findAll", <<filters>>,
                          [i \in DOMAIN rows |-> CompanyProj(rows[i])], 1)
     /\ UNCHANGED store

\* filters is [name, minEmployees, maxEmployees], each Undefined or <<value>>
CompanyFindAll(filters) ==
  LET name == filters.name
      minEmployees == filters.minEmployees
      maxEmployees == filters.maxEmployees
      params1 == IF minEmployees # Undefined THEN <<minEmployees[1]>> ELSE <<>>
      conds1 == IF minEmployees # Undefined
                THEN <<[col |-> "num_employees", cmp |-> ">=",
                        pos |-> Len(params1)]>>
                ELSE <<>>
      params2 == IF maxEmployees # Undefined
                 THEN Append(params1, maxEmployees[1]) ELSE params1
      conds2 == IF maxEmployees # Undefined
                THEN Append(conds1, [col |-> "num_employees", cmp |-> "<=",
                                     pos |-> Len(params2)])
                ELSE conds1
      \* if (name): undefined and the empty text are falsy
      nameGiven == name # Undefined /\ name[1] # <<>>
      params == IF nameGiven
                THEN Append(params2, <<"%">> \o name[1] \o <<"%">>)
                ELSE params2
      filterConditions ==
                IF nameGiven
                THEN Append(conds2, [col |-> "name", cmp |-> "ILIKE",
                                     pos |-> Len(params)])
                ELSE conds2
  IN /\ IF /\ minEmployees # Undefined
           /\ maxEmployees # Undefined
           /\ minEmployees[1] > maxEmployees[1]
        THEN resp' = Throw("Company.findAll", <<filters>>, "BadRequest", 0)
        ELSE \E rows \in OrderBy(SqlSelect(companies, filterConditions, params),
                                 "name") :
               resp' = Ok("Company.findAll", <<filters>>,
                          [i \in DOMAIN rows |-> CompanyProj(rows[i])], 1)
     /\ UNCHANGED store

(***************************************************************************)
(* models/job                                                              *)
(***************************************************************************)
\* RETURNING id, title, salary, equity, company_handle AS "companyHandle"
JobProj(r) ==
  [id |-> r.id, title |-> r.title, salary |-> r.salary, equity |-> r.equity,
   companyHandle |-> r.company_handle]

\* data is [title, salary, equity, companyHandle]; id is the next value of
\* the jobs_id sequence, which advances also when the INSERT fails
JobCreate(data) ==
  LET row == [id |-> nextJobId, title |-> data.title, salary |-> data.salary,
              equity |-> data.equity, company_handle |-> data.companyHandle]
      ins == SqlInsert(jobs, "id", row)
      fkOk == \E c \in companies : c.handle = data.companyHandle
  IN /\ nextJobId <= MaxJobId
     /\ nextJobId' = nextJobId + 1
     /\ IF ins.err \/ ~fkOk
        THEN /\ resp' = Throw("Job.create", <<data>>, "Fault", 1)
             /\ UNCHANGED jobs
        ELSE /\ jobs' = ins.table
             /\ resp' = Ok("Job.create", <<data>>, JobProj(row), 1)
     /\ UNCHANGED <<companies, users, applications>>

\* SELECT j.*, c.name AS "companyName" FROM jobs j LEFT JOIN companies c
\* ON c.handle = j.company_handle: one row per job and matching company,
\* and one row with a NULL name for a job without a company
JobsJoinCompanies ==
  {[id |-> j.id, title |-> j.title, salary |-> j.salary, equity |-> j.equity,
    company_handle |-> j.company_handle, company_name |-> Some(c.name)] :
      <<j, c>> \in {jc \in jobs \X companies :
                      jc[2].handle = jc[1].company_handle}}
  \cup
  {[id |-> j.id, title |-> j.title, salary |-> j.salary, equity |-> j.equity,
    company_handle |-> j.company_handle, company_name |-> Null] :
      j \in {jj \in jobs : ~\E c \in companies : c.handle = jj.company_handle}}

JobListProj(r) ==
  [id |-> r.id, title |-> r.title, salary |-> r.salary, equity |-> r.equity,
   companyHandle |-> r.company_handle, companyName |-> r.company_name]

\* filters is [minSalary, hasEquity, title]: minSalary and title Undefined
\* or <<value>>, hasEquity Undefined, <<TRUE>> or <<FALSE>>
\* the rows of the query with every value of hasEquity but undefined taken
\* as the request for equity
JobFindAllRowsAnyEquityFlag(filters) ==
  LET minSalary == filters.minSalary
      hasEquity == filters.hasEquity
      title == filters.title
      values1 == IF minSalary # Undefined THEN <<minSalary[1]>> ELSE <<>>
      where1 == IF minSalary # Undefined
                THEN <<[col |-> "salary", cmp |-> ">=", pos |-> Len(values1)]>>
                ELSE <<>>
      where2 == IF hasEquity # Undefined
                THEN Append(where1, [col |-> "equity", cmp |-> "> 0", pos |-> 0])
                ELSE where1
      queryValues == IF title # Undefined
                     THEN Append(values1, <<"%">> \o title[1] \o <<"%">>)
                     ELSE values1
      whereExpressions ==
                IF title # Undefined
                THEN Append(where2, [col |-> "title", cmp |-> "ILIKE",
                                     pos |-> Len(queryValues)])
                ELSE where2
  IN SqlSelect(JobsJoinCompanies, whereExpressions, queryValues)

\* the rows the query of Job.findAll selects, before ORDER BY
JobFindAllRows(filters) ==
  LET minSalary == filters.minSalary
      hasEquity == filters.hasEquity
      title == filters.title
      values1 == IF minSalary # Undefined THEN <<minSalary[1]>> ELSE <<>>
      where1 == IF minSalary # Undefined
                THEN <<[col |-> "salary", cmp |-> ">=", pos |-> Len(values1)]>>
                ELSE <<>>
      where2 == IF hasEquity = <<TRUE>>
                THEN Append(where1, [col |-> "equity", cmp |-> "> 0", pos |-> 0])
                ELSE where1
      queryValues == IF title # Undefined
                     THEN Append(values1, <<"%">> \o title[1] \o <<"%">>)
                     ELSE values1
      whereExpressions ==
                IF title # Undefined
                THEN Append(where2, [col |-> "title", cmp |-> "ILIKE",
                                     pos |-> Len(queryValues)])
                ELSE where2
  IN SqlSelect(JobsJoinCompanies, whereExpressions, queryValues)

JobFindAll(filters) ==
  /\ \E rows \in OrderBy(JobFindAllRows(filters), "title") :
       resp' = Ok("Job.findAll", <<filters>>,
                  [i \in DOMAIN rows |-> JobListProj(rows[i])], 1)
  /\ UNCHANGED store

JobGet(id) ==
  LET jobRes == SqlSelect(jobs, <<[col |-> "id", cmp |-> "=", pos |-> 1]>>,
                          <<id>>)
      job == JobProj(CHOOSE r \in jobRes : TRUE)
      companiesRes ==
        SqlSelect(companies, <<[col |-> "handle", cmp |-> "=", pos |-> 1]>>,
                  <<job.companyHandle>>)
  IN /\ resp' = IF jobRes = {}
                THEN Throw("Job.get", <<id>>, "NotFound", 1)
                ELSE Ok("Job.get", <<id>>,
                        [id |-> job.id, title |-> job.title,
                         salary |-> job.salary, equity |-> job.equity,
                         company |-> IF companiesRes = {} THEN Undefined
                                     ELSE CompanyProj(CHOOSE r \in companiesRes
                                                        : TRUE)],
                        2)
     /\ UNCHANGED store

\* Job.get up to its first query: the job row is read, or NotFound is thrown
JobGetSelectJob(id) ==
  LET jobRes == SqlSelect(jobs, <<[col |-> "id", cmp |-> "=", pos |-> 1]>>,
                          <<id>>)
  IN /\ Cardinality(inflight) < MaxInflight
     /\ IF jobRes = {}
        THEN /\ resp' = Throw("Job.get", <<id>>, "NotFound", 1)
             /\ UNCHANGED inflight
        ELSE /\ inflight' = inflight \cup
                  {[op |-> "Job.get", id |-> id,
                    job |-> JobProj(CHOOSE r \in jobRes : TRUE)]}
             /\ UNCHANGED resp
     /\ UNCHANGED store

\* Job.get from its second query on: the company of the job read before is
\* selected and the job is returned with it
JobGetSelectCompany(call) ==
  LET job == call.job
      companiesRes ==
        SqlSelect(companies, <<[col |-> "handle", cmp |-> "=", pos |-> 1]>>,
                  <<job.companyHandle>>)
  IN /\ call \in inflight
     /\ call.op = "Job.get"
     /\ resp' = Ok("Job.get", <<call.id>>,
                   [id |-> job.id, title |-> job.title,
                    salary |-> job.salary, equity |-> job.equity,
                    company |-> IF companiesRes = {} THEN Undefined
                                ELSE CompanyProj(CHOOSE r \in companiesRes
                                                   : TRUE)],
                   2)
     /\ inflight' = inflight \ {call}
     /\ UNCHANGED store

\* Job.update whose statement has no WHERE clause
JobUpdateEveryRow(id, data) ==
  LET b == sqlForPartialUpdate(data, <<>>)
      after == {SetRow(r, b.setCols, b.values) : r \in jobs}
      rows == {r \in after : r.id = id}
  IN /\ IF b.err # "none"
        THEN /\ resp' = Throw("Job.update", <<id, data>>, b.err, 0)
             /\ UNCHANGED jobs
        ELSE IF rows = {}
        THEN /\ resp' = Throw("Job.update", <<id, data>>, "NotFound", 1)
             /\ UNCHANGED jobs
        ELSE /\ resp' = Ok("Job.update", <<id, data>>,
                           JobProj(CHOOSE r \in rows : TRUE), 1)
             /\ jobs' = after
     /\ UNCHANGED <<companies, users, applications, nextJobId>>

\* Job.update without the check of the returned row
JobUpdateNoRowCheck(id, data) ==
  LET b == sqlForPartialUpdate(data, <<>>)
      idVarIdx == Len(b.values) + 1
      result == SqlUpdate(jobs, JobColumns, "id", b.setCols, "id", idVarIdx,
                          Append(b.values, id))
  IN /\ IF b.err # "none"
        THEN /\ resp' = Throw("Job.update", <<id, data>>, b.err, 0)
             /\ UNCHANGED jobs
        ELSE IF result.err
        THEN /\ resp' = Throw("Job.update", <<id, data>>, "Fault", 1)
             /\ UNCHANGED jobs
        ELSE /\ resp' = Ok("Job.update", <<id, data>>, "undefined", 1)
             /\ jobs' = result.table
     /\ UNCHANGED <<companies, users, applications, nextJobId>>

JobUpdate(id, data) ==
  LET b == sqlForPartialUpdate(data, <<>>)
      idVarIdx == Len(b.values) + 1
      result == SqlUpdate(jobs, JobColumns, "id", b.setCols, "id", idVarIdx,
                          Append(b.values, id))
  IN /\ IF b.err # "none"
        THEN /\ resp' = Throw("Job.update", <<id, data>>, b.err, 0)
             /\ UNCHANGED jobs
        ELSE IF \/ result.err
              \/ LosesReferencedKey(jobs, result.table, "id",
                                    {a.job_id : a \in applications})
        THEN /\ resp' = Throw("Job.update", <<id, data>>, "Fault", 1)
             /\ UNCHANGED jobs
        ELSE IF result.rows = {}
        THEN /\ resp' = Throw("Job.update", <<id, data>>, "NotFound", 1)
             /\ jobs' = result.table
        ELSE /\ resp' = Ok("Job.update", <<id, data>>,
                           JobProj(CHOOSE r \in result.rows : TRUE), 1)
             /\ jobs' = result.table
     /\ UNCHANGED <<companies, users, applications, nextJobId>>

\* Job.update up to its statement
JobUpdateBuild(caller, id, data) ==
  LET b == sqlForPartialUpdate(data, <<>>)
  IN /\ \A call \in inflight : call.caller # caller
     /\ IF b.err # "none"
        THEN /\ resp' = Throw("Job.update", <<id, data>>, b.err, 0)
             /\ UNCHANGED inflight
        ELSE /\ inflight' = inflight \cup
                  {[op |-> "Job.update", caller |-> caller, key |-> id,
                    data |-> data, b |-> b]}
             /\ UNCHANGED resp
     /\ UNCHANGED store

\* Job.update from its statement on
JobUpdateExecute(call) ==
  LET b == call.b
      idVarIdx == Len(b.values) + 1
      result == SqlUpdate(jobs, JobColumns, "id", b.setCols, "id", idVarIdx,
                          Append(b.values, call.key))
  IN /\ call \in inflight
     /\ call.op = "Job.update"
     /\ IF \/ result.err
           \/ LosesReferencedKey(jobs, result.table, "id",
                                 {a.job_id : a \in applications})
        THEN /\ resp' = Throw("Job.update", <<call.key, call.data>>,
                              "Fault", 1)
             /\ UNCHANGED jobs
        ELSE IF result.rows = {}
        THEN /\ resp' = Throw("Job.update", <<call.key, call.data>>,
                              "NotFound", 1)
             /\ jobs' = result.table
        ELSE /\ resp' = Ok("Job.update", <<call.key, call.data>>,
                           JobProj(CHOOSE r \in result.rows : TRUE), 1)
             /\ jobs' = result.table
     /\ inflight' = inflight \ {call}
     /\ UNCHANGED <<companies, users, applications, nextJobId>>

JobRemove(id) ==
  LET result == SqlDelete(jobs, "id", id)
  IN /\ jobs' = result.table
     /\ applications' = ApplicationsAfterJobDelete(result.table)
     /\ resp' = IF result.rows = {}
                THEN Throw("Job.remove", <<id>>, "NotFound", 1)
                ELSE Ok("Job.remove", <<id>>, "undefined", 1)
     /\ UNCHANGED <<companies, users, nextJobId>>

(***************************************************************************)
(* models/user                                                             *)
(***************************************************************************)
UserColumns ==
  {"username", "password", "first_name", "last_name", "email", "is_admin"}

UserJsToSql ==
  [firstName |-> "first_name", lastName |-> "last_name", isAdmin |-> "is_admin"]

\* bcrypt.hash: the one-way hash of a password, a text that starts with
\* "$2b$"
Hash(password) == "$2b$" \o password

\* bcrypt.compare: the hash is one of the password
Compare(password, hash) == hash = Hash(password)

UserProj(r) ==
  [username |-> r.username, firstName |-> r.first_name,
   lastName |-> r.last_name, email |-> r.email, isAdmin |-> r.is_admin]

\* data is [username, password, firstName, lastName, email, isAdmin]
UserRegister(data) ==
  LET duplicateCheck ==
        SqlSelect(users, <<[col |-> "username", cmp |-> "=", pos |-> 1]>>,
                  <<data.username>>)
      row == [username |-> data.username, password |-> Hash(data.password),
              first_name |-> data.firstName, last_name |-> data.lastName,
              email |-> data.email, is_admin |-> data.isAdmin]
      ins == SqlInsert(users, "username", row)
  IN /\ IF duplicateCheck # {}
        THEN /\ resp' = Throw("User.register", <<data>>, "BadRequest", 1)
             /\ UNCHANGED users
        ELSE IF ins.err
        THEN /\ resp' = Throw("User.register", <<data>>, "Fault", 2)
             /\ UNCHANGED users
        ELSE /\ users' = ins.table
             /\ resp' = Ok("User.register", <<data>>, UserProj(row), 2)
     /\ UNCHANGED <<companies, jobs, applications, nextJobId>>

\* ORDER BY job_id of a set of job ids
RECURSIVE SortedIds(_)
SortedIds(ids) ==
  IF ids = {} THEN <<>>
  ELSE LET m == CHOOSE x \in ids : \A y \in ids : x <= y
       IN <<m>> \o SortedIds(ids \ {m})

UserGet(username) ==
  LET userRes == SqlSelect(users,
                           <<[col |-> "username", cmp |-> "=", pos |-> 1]>>,
                           <<username>>)
      userApplicationsRes == {a \in applications : a.username = username}
      user == UserProj(CHOOSE r \in userRes : TRUE)
  IN /\ resp' = IF userRes = {}
                THEN Throw("User.get", <<username>>, "NotFound", 1)
                ELSE Ok("User.get", <<username>>,
                        [username |-> user.username,
                         firstName |-> user.firstName,
                         lastName |-> user.lastName, email |-> user.email,
                         isAdmin |-> user.isAdmin,
                         applications |->
                           SortedIds({a.job_id : a \in userApplicationsRes})],
                        2)
     /\ UNCHANGED store

\* update that hands the password to the builder as it came
UserUpdateStoringPlaintext(username, data) ==
  LET b == sqlForPartialUpdate(data, UserJsToSql)
      usernameVarIdx == Len(b.values) + 1
      result == SqlUpdate(users, UserColumns, "username", b.setCols,
                          "username", usernameVarIdx,
                          Append(b.values, username))
  IN /\ IF b.err # "none"
        THEN /\ resp' = Throw("User.update", <<username, data>>, b.err, 0)
             /\ UNCHANGED users
        ELSE IF result.err
        THEN /\ resp' = Throw("User.update", <<username, data>>, "Fault", 1)
             /\ UNCHANGED users
        ELSE IF result.rows = {}
        THEN /\ resp' = Throw("User.update", <<username, data>>, "NotFound", 1)
             /\ users' = result.table
        ELSE /\ resp' = Ok("User.update", <<username, data>>,
                           UserProj(CHOOSE r \in result.rows : TRUE), 1)
             /\ users' = result.table
     /\ UNCHANGED <<companies, jobs, applications, nextJobId>>

\* a password in data is replaced by its hash before the statement is built
UserUpdate(username, data) ==
  LET hashed == [i \in 1..Len(data) |->
                   IF data[i][1] = "password"
                   THEN <<"password", Hash(data[i][2])>> ELSE data[i]]
      b == sqlForPartialUpdate(hashed, UserJsToSql)
      usernameVarIdx == Len(b.values) + 1
      result == SqlUpdate(users, UserColumns, "username", b.setCols,
                          "username", usernameVarIdx,
                          Append(b.values, username))
  IN /\ IF b.err # "none"
        THEN /\ resp' = Throw("User.update", <<username, data>>, b.err, 0)
             /\ UNCHANGED users
        ELSE IF \/ result.err
              \/ LosesReferencedKey(users, result.table, "username",
                                    {a.username : a \in applications})
        THEN /\ resp' = Throw("User.update", <<username, data>>, "Fault", 1)
             /\ UNCHANGED users
        ELSE IF result.rows = {}
        THEN /\ resp' = Throw("User.update", <<username, data>>, "NotFound", 1)
             /\ users' = result.table
        ELSE /\ resp' = Ok("User.update", <<username, data>>,
                           UserProj(CHOOSE r \in result.rows : TRUE), 1)
             /\ users' = result.table
     /\ UNCHANGED <<companies, jobs, applications, nextJobId>>

UserRemove(username) ==
  LET result == SqlDelete(users, "username", username)
  IN /\ users' = result.table
     /\ applications' =
          {a \in applications : a.username \in {u.username : u \in result.table}}
     /\ resp' = IF result.rows = {}
                THEN Throw("User.remove", <<username>>, "NotFound", 1)
                ELSE Ok("User.remove", <<username>>, "undefined", 1)
     /\ UNCHANGED <<companies, jobs, nextJobId>>

\* applyToJob without the check that the user exists
UserApplyToJobNoUserCheck(username, jobId) ==
  LET preCheck == SqlSelect(jobs, <<[col |-> "id", cmp |-> "=", pos |-> 1]>>,
                            <<jobId>>)
      row == [username |-> username, job_id |-> jobId]
  IN /\ IF preCheck = {}
        THEN /\ resp' = Throw("User.applyToJob", <<username, jobId>>,
                              "NotFound", 1)
             /\ UNCHANGED applications
        ELSE IF row \in applications
        THEN /\ resp' = Throw("User.applyToJob", <<username, jobId>>,
                              "Fault", 2)
             /\ UNCHANGED applications
        ELSE /\ applications' = applications \cup {row}
             /\ resp' = Ok("User.applyToJob", <<username, jobId>>,
                           "undefined", 2)
     /\ UNCHANGED <<companies, jobs, users, nextJobId>>

\* applications has the primary key (username, job_id); a second application
\* to the same job is reported by the store as a duplicate key
UserApplyToJob(username, jobId) ==
  LET preCheck == SqlSelect(jobs, <<[col |-> "id", cmp |-> "=", pos |-> 1]>>,
                            <<jobId>>)
      preCheck2 == SqlSelect(users,
                             <<[col |-> "username", cmp |-> "=", pos |-> 1]>>,
                             <<username>>)
      row == [username |-> username, job_id |-> jobId]
  IN /\ IF preCheck = {}
        THEN /\ resp' = Throw("User.applyToJob", <<username, jobId>>,
                              "NotFound", 1)
             /\ UNCHANGED applications
        ELSE IF preCheck2 = {}
        THEN /\ resp' = Throw("User.applyToJob", <<username, jobId>>,
                              "NotFound", 2)
             /\ UNCHANGED applications
        ELSE IF row \in applications
        THEN /\ resp' = Throw("User.applyToJob", <<username, jobId>>,
                              "Fault", 3)
             /\ UNCHANGED applications
        ELSE /\ applications' = applications \cup {row}
             /\ resp' = Ok("User.applyToJob", <<username, jobId>>,
                           "undefined", 3)
     /\ UNCHANGED <<companies, jobs, users, nextJobId>>

\* authenticate that admits every password of an existing user
UserAuthenticateAnyPassword(username, password) ==
  LET result == SqlSelect(users,
                          <<[col |-> "username", cmp |-> "=", pos |-> 1]>>,
                          <<username>>)
  IN /\ resp' = IF result # {}
                THEN Ok("User.authenticate", <<username, password>>,
                        UserProj(CHOOSE r \in result : TRUE), 1)
                ELSE Throw("User.authenticate", <<username, password>>,
                           "Unauthorized", 1)
     /\ UNCHANGED store

UserAuthenticate(username, password) ==
  LET result == SqlSelect(users,
                          <<[col |-> "username", cmp |-> "=", pos |-> 1]>>,
                          <<username>>)
      user == CHOOSE r \in result : TRUE
  IN /\ resp' = IF result # {} /\ Compare(password, user.password)
                THEN Ok("User.authenticate", <<username, password>>,
                        UserProj(user), 1)
                ELSE Throw("User.authenticate", <<username, password>>,
                           "Unauthorized", 1)
     /\ UNCHANGED store

\* ORDER BY username: the usernames in use are "u1" < "u2"
UsernameRank(username) == IF username = "u1" THEN 1 ELSE 2

RECURSIVE SortedUsers(_)
SortedUsers(rows) ==
  IF rows = {} THEN <<>>
  ELSE LET m == CHOOSE r \in rows :
                  \A s \in rows :
                    UsernameRank(r.username) <= UsernameRank(s.username)
       IN <<UserProj(m)>> \o SortedUsers(rows \ {m})

UserFindAll ==
  /\ resp' = Ok("User.findAll", <<>>, SortedUsers(users), 1)
  /\ UNCHANGED store

(***************************************************************************)
(* Texts                                                                   *)
(***************************************************************************)
TxtC1 == <<"C", "1">>

TxtC2 == <<"C", "2">>

TxtJ1 == <<"J", "1">>

TxtJ2 == <<"J", "2">>

TxtNew == <<"N", "e", "w">>

(***************************************************************************)
(* The calls of the default specification: every entity's create, get,     *)
(* update and remove, with arguments from small catalogues                 *)
(***************************************************************************)
NewCompanies ==
  {[handle |-> "c1", name |-> TxtC1, description |-> "Desc1",
    numEmployees |-> Some(1), logoUrl |-> Some("http://c1.img")]}

HandleArgs == {"c1", "nope"}

CompanyUpdates ==
  {<<>>,
   << <<"name", TxtNew>> >>,
   << <<"numEmployees", Null>>, <<"logoUrl", Null>> >>}

NewJobs ==
  {[title |-> TxtJ1, salary |-> Some(1), equity |-> Some("0.1"),
    companyHandle |-> h] : h \in HandleArgs}

JobIdArgs == 0..MaxJobId

JobUpdates ==
  {<<>>,
   << <<"equity", Some("0")>>, <<"salary", Null>> >>}

NewUsers ==
  {[username |-> "u1", password |-> "password1", firstName |-> "U1F",
    lastName |-> "U1L", email |-> "u1@email.com", isAdmin |-> FALSE]}

UsernameArgs == {"u1", "nope"}

UserUpdates ==
  {<<>>,
   << <<"firstName", "NewF">>, <<"password", "new">> >>}

Init ==
  /\ companies = {}
  /\ jobs = {}
  /\ users = {}
  /\ applications = {}
  /\ nextJobId = 1
  /\ resp = NoResp
  /\ inflight = {}
  /\ http = NoRequest

CompanyCreateCall ==
  \E d \in NewCompanies :
    CompanyCreate(d) /\ UNCHANGED <<inflight, http>>

CompanyGetCall ==
  \E h \in HandleArgs :
    CompanyGet(h) /\ UNCHANGED <<inflight, http>>

CompanyUpdateCall ==
  \E h \in HandleArgs, d \in CompanyUpdates :
    CompanyUpdate(h, d) /\ UNCHANGED <<inflight, http>>

CompanyRemoveCall ==
  \E h \in HandleArgs :
    CompanyRemove(h) /\ UNCHANGED <<inflight, http>>

JobCreateCall ==
  \E d \in NewJobs :
    JobCreate(d) /\ UNCHANGED <<inflight, http>>

JobGetCall ==
  \E id \in JobIdArgs :
    JobGet(id) /\ UNCHANGED <<inflight, http>>

JobUpdateCall ==
  \E id \in JobIdArgs, d \in JobUpdates :
    JobUpdate(id, d) /\ UNCHANGED <<inflight, http>>

JobRemoveCall ==
  \E id \in JobIdArgs :
    JobRemove(id) /\ UNCHANGED <<inflight, http>>

UserRegisterCall ==
  \E d \in NewUsers :
    UserRegister(d) /\ UNCHANGED <<inflight, http>>

UserGetCall ==
  \E u \in UsernameArgs :
    UserGet(u) /\ UNCHANGED <<inflight, http>>

UserUpdateCall ==
  \E u \in UsernameArgs, d \in UserUpdates :
    UserUpdate(u, d) /\ UNCHANGED <<inflight, http>>

UserRemoveCall ==
  \E u \in UsernameArgs :
    UserRemove(u) /\ UNCHANGED <<inflight, http>>

UserApplyToJobCall ==
  \E u \in UsernameArgs, id \in JobIdArgs :
    UserApplyToJob(u, id) /\ UNCHANGED <<inflight, http>>

Next ==
  \/ CompanyCreateCall
  \/ CompanyGetCall
  \/ CompanyUpdateCall
  \/ CompanyRemoveCall
  \/ JobCreateCall
  \/ JobGetCall
  \/ JobUpdateCall
  \/ JobRemoveCall
  \/ UserRegisterCall
  \/ UserGetCall
  \/ UserUpdateCall
  \/ UserRemoveCall
  \/ UserApplyToJobCall

Spec == Init /\ [][Next]_vars

(***************************************************************************)
(* Properties                                                              *)
(***************************************************************************)
KeysOf(table, col) == {r[col] : r \in table}

RowOf(table, col, key) == CHOOSE r \in table : r[col] = key

\* proj with the fields that data supplies overwritten by data's values
Merge(proj, data) ==
  [f \in DOMAIN proj |->
     IF \E i \in 1..Len(data) : data[i][1] = f
     THEN data[CHOOSE i \in 1..Len(data) : data[i][1] = f][2]
     ELSE proj[f]]

UpdateOps == {"Company.update", "Job.update", "User.update"}

\* the table, key column and projection of the entity an operation is of
IsCompanyOp(op) == op \in {"Company.create", "Company.get", "Company.update",
                           "Company.remove", "Company.findAll"}

IsJobOp(op) == op \in {"Job.create", "Job.get", "Job.update", "Job.remove",
                       "Job.findAll"}

KeysBefore(op) ==
  IF IsCompanyOp(op) THEN KeysOf(companies, "handle")
  ELSE IF IsJobOp(op) THEN KeysOf(jobs, "id")
  ELSE KeysOf(users, "username")

KeysAfter(op) ==
  IF IsCompanyOp(op) THEN KeysOf(companies', "handle")
  ELSE IF IsJobOp(op) THEN KeysOf(jobs', "id")
  ELSE KeysOf(users', "username")

ProjBefore(op, key) ==
  IF IsCompanyOp(op) THEN CompanyProj(RowOf(companies, "handle", key))
  ELSE IF IsJobOp(op) THEN JobProj(RowOf(jobs, "id", key))
  ELSE UserProj(RowOf(users, "username", key))

ProjAfter(op, key) ==
  IF IsCompanyOp(op) THEN CompanyProj(RowOf(companies', "handle", key))
  ELSE IF IsJobOp(op) THEN JobProj(RowOf(jobs', "id", key))
  ELSE UserProj(RowOf(users', "username", key))

\* C1: an update of an existing key with a non-empty field set succeeds and
\* returns the prior projection with exactly the supplied fields overwritten
\* (an explicit null included); the row keeps its primary key, the stored row
\* is the returned one and no key appears or disappears.
C1_UpdateStep ==
  (/\ resp'.op \in UpdateOps
   /\ resp'.args[2] # <<>>
   /\ resp'.args[1] \in KeysBefore(resp'.op))
  => /\ resp'.outcome = "ok"
     /\ resp'.result = Merge(ProjBefore(resp'.op, resp'.args[1]), resp'.args[2])
     /\ KeysAfter(resp'.op) = KeysBefore(resp'.op)
     /\ ProjAfter(resp'.op, resp'.args[1]) = resp'.result

C1_UpdateMergesFields == [][C1_UpdateStep]_vars

\* C1 witness: a job update that set salary to null and left the title
\* alone has returned, after a company and a user were updated too
C1_Witness ==
  /\ resp.op = "Job.update"
  /\ resp.outcome = "ok"
  /\ resp.result.salary = Null
  /\ resp.result.title = TxtJ1
  /\ \E c \in companies : c.logo_url = Null /\ c.name = TxtC1
  /\ \E u \in users : u.first_name = "NewF" /\ u.is_admin = FALSE

\* C2: an update with a non-empty field set of a key that does not exist
\* fails with NotFound and leaves the store unchanged.
C2_UpdateMissingStep ==
  (/\ resp'.op \in UpdateOps
   /\ resp'.args[2] # <<>>
   /\ resp'.args[1] \notin KeysBefore(resp'.op))
  => /\ resp'.outcome = "NotFound"
     /\ store' = store

C2_UpdateMissingIsNotFound == [][C2_UpdateMissingStep]_vars

\* C2 witness: an update of a removed job has failed while other rows exist
C2_Witness ==
  /\ resp.op = "Job.update"
  /\ resp.args[1] = 1
  /\ resp.outcome = "NotFound"
  /\ nextJobId > 1
  /\ companies # {}

\* C3: an update with an empty field set fails with BadRequest and changes
\* nothing in the store.
C3_UpdateEmptyStep ==
  (resp'.op \in UpdateOps /\ resp'.args[2] = <<>>)
  => /\ resp'.outcome = "BadRequest"
     /\ store' = store

C3_EmptyUpdateIsBadRequest == [][C3_UpdateEmptyStep]_vars

\* C3 witness: the empty update of an existing company has been refused
C3_Witness ==
  /\ resp.op = "Company.update"
  /\ resp.args[2] = <<>>
  /\ resp.args[1] \in KeysOf(companies, "handle")
  /\ resp.outcome = "BadRequest"

GetOps == {"Company.get", "Job.get", "User.get"}

RemoveOps == {"Company.remove", "Job.remove", "User.remove"}

CreateOps == {"Company.create", "Job.create", "User.register"}

\* what get returns for the row of key, from the tables before the call
GetBefore(op, key) ==
  IF op = "Company.get" THEN CompanyProj(RowOf(companies, "handle", key))
  ELSE IF op = "Job.get"
  THEN LET j == RowOf(jobs, "id", key)
       IN [id |-> j.id, title |-> j.title, salary |-> j.salary,
           equity |-> j.equity,
           company |-> CompanyProj(RowOf(companies, "handle", j.company_handle))]
  ELSE LET u == RowOf(users, "username", key)
       IN [username |-> u.username, firstName |-> u.first_name,
           lastName |-> u.last_name, email |-> u.email, isAdmin |-> u.is_admin,
           applications |->
             SortedIds({a.job_id : a \in {x \in applications : x.username = key}})]

\* get and remove: NotFound iff the key is absent, else get returns the row's
\* projection and remove deletes the row
C4_GetRemoveStep ==
  /\ (resp'.op \in GetOps \cup RemoveOps)
     => /\ resp'.outcome \in {"ok", "NotFound"}
        /\ resp'.outcome = "NotFound" <=> resp'.args[1] \notin KeysBefore(resp'.op)
  /\ (resp'.op \in GetOps /\ resp'.outcome = "ok")
     => /\ resp'.result = GetBefore(resp'.op, resp'.args[1])
        /\ store' = store
  /\ (resp'.op \in RemoveOps /\ resp'.outcome = "ok")
     => /\ resp'.args[1] \notin KeysAfter(resp'.op)
        /\ KeysAfter(resp'.op) = KeysBefore(resp'.op) \ {resp'.args[1]}
  /\ (resp'.op \in RemoveOps /\ resp'.outcome = "NotFound") => store' = store

\* a key comes into existence only by a create of its entity
C4_OnlyCreateAddsKeys ==
  /\ KeysOf(companies', "handle") \subseteq KeysOf(companies, "handle")
       \/ resp'.op = "Company.create"
  /\ KeysOf(jobs', "id") \subseteq KeysOf(jobs, "id") \/ resp'.op = "Job.create"
  /\ KeysOf(users', "username") \subseteq KeysOf(users, "username")
       \/ resp'.op = "User.register"

\* the original C4: also every update of an absent key, whatever its field
\* set, fails with NotFound
C4_OriginalStep ==
  /\ C4_GetRemoveStep
  /\ C4_OnlyCreateAddsKeys
  /\ (resp'.op \in UpdateOps /\ resp'.args[1] \notin KeysBefore(resp'.op))
     => resp'.outcome = "NotFound"

C4_Original == [][C4_OriginalStep]_vars

\* C4 (amended): get(key) and remove(key) fail with NotFound if and only if
\* no row with that key exists at the time of the call; when the key exists,
\* get returns its projection and remove deletes the row, so that any later
\* get, remove, or update with a non-empty field set of that key fails with
\* NotFound until the key is created again.
C4_AmendedStep ==
  /\ C4_GetRemoveStep
  /\ C4_OnlyCreateAddsKeys
  /\ (/\ resp'.op \in UpdateOps
      /\ resp'.args[2] # <<>>
      /\ resp'.args[1] \notin KeysBefore(resp'.op))
     => resp'.outcome = "NotFound"

C4_NotFoundIffAbsent == [][C4_AmendedStep]_vars

\* C4 witness: a job has been removed while its company and a user exist
C4_Witness ==
  /\ resp.op = "Job.remove"
  /\ resp.outcome = "ok"
  /\ resp.args[1] \notin KeysOf(jobs, "id")
  /\ companies # {}
  /\ users # {}

\* C5: Company.create of a handle that exists fails with BadRequest and leaves
\* the store unchanged; there is never more than one company per handle.
C5_DuplicateStep ==
  (resp'.op = "Company.create"
   /\ resp'.args[1].handle \in KeysOf(companies, "handle"))
  => /\ resp'.outcome = "BadRequest"
     /\ store' = store

C5_OnePerHandle ==
  \A h \in KeysOf(companies, "handle") :
    Cardinality({r \in companies : r.handle = h}) = 1

C5_DuplicateHandleRejected == []C5_OnePerHandle /\ [][C5_DuplicateStep]_vars

\* C5 witness: a second create of c1 has been refused and the row, which an
\* update had changed since its creation, is still the updated one
C5_Witness ==
  /\ resp.op = "Company.create"
  /\ resp.outcome = "BadRequest"
  /\ \E r \in companies :
       r.handle = resp.args[1].handle /\ r.name # resp.args[1].name

GetOf(op) ==
  IF op = "Company.create" THEN "Company.get"
  ELSE IF op = "Job.create" THEN "Job.get" ELSE "User.get"

KeyOfCreated(r) ==
  IF r.op = "Company.create" THEN r.result.handle
  ELSE IF r.op = "Job.create" THEN r.result.id ELSE r.result.username

\* a get of the key that the call just before it created
C6_GetAfterCreate ==
  /\ resp.op \in CreateOps
  /\ resp.outcome = "ok"
  /\ resp'.op = GetOf(resp.op)
  /\ resp'.args[1] = KeyOfCreated(resp)

\* the original C6, for the entities whose create and get are in the source:
\* the get returns a value equal to the one create returned (the generated id
\* is in both values)
C6_OriginalStep ==
  (C6_GetAfterCreate /\ resp.op \in {"Company.create", "Job.create"})
  => (resp'.outcome = "ok" /\ resp'.result = resp.result)

C6_AmendedStep ==
  C6_GetAfterCreate =>
    /\ resp'.outcome = "ok"
    /\ \A f \in DOMAIN resp'.result \cap DOMAIN resp.result :
         resp'.result[f] = resp.result[f]
    /\ resp.op = "Company.create" => resp'.result = resp.result
    /\ resp.op = "Job.create" =>
         /\ DOMAIN resp'.result =
              (DOMAIN resp.result \ {"companyHandle"}) \cup {"company"}
         /\ resp'.result.company.handle = resp.result.companyHandle
    /\ resp.op = "User.register" =>
         /\ DOMAIN resp'.result = DOMAIN resp.result \cup {"applications"}
         /\ resp'.result.applications = <<>>

BuilderFields == {"f1", "jsF2", "f3"}

BuilderValues == {"v1", "v2"}

BuilderMaps == {<<>>, [jsF2 |-> "f2"], [f1 |-> "f1", fF2 |-> "f2"]}

\* the objects of at most MaxFields fields: no key twice
BuilderData ==
  {d \in UNION {[1..k -> BuilderFields \X BuilderValues] : k \in 0..MaxFields} :
     \A i, j \in DOMAIN d : i # j => d[i][1] # d[j][1]}

Input(args) ==
  [op |-> "input", args |-> args, outcome |-> "none", result |-> "none",
   queries |-> 0]

EmptyStore ==
  /\ companies = {}
  /\ jobs = {}
  /\ users = {}
  /\ applications = {}
  /\ nextJobId = 1

InitBuilder ==
  /\ EmptyStore
  /\ resp \in {Input(<<d, m>>) : d \in BuilderData, m \in BuilderMaps}
  /\ inflight = {}
  /\ http = NoRequest

BuilderCall ==
  LET b == sqlForPartialUpdate(resp.args[1], resp.args[2])
  IN /\ resp.op = "input"
     /\ resp' = IF b.err # "none"
                THEN Throw("sqlForPartialUpdate", resp.args, b.err, 0)
                ELSE Ok("sqlForPartialUpdate", resp.args,
                        [setCols |-> b.setCols, values |-> b.values], 0)
     /\ UNCHANGED <<store, inflight, http>>

SpecBuilder == InitBuilder /\ [][BuilderCall]_vars

\* C7: for a non-empty object the builder returns one assignment per field,
\* in the object's order, the i-th with position i and with the mapped column
\* name if the field is in the mapping and the field's own name otherwise, and
\* the values in the same order.
C7_BuilderAssignments ==
  (resp.op = "sqlForPartialUpdate" /\ resp.args[1] # <<>>)
  => LET data == resp.args[1]
         jsToSql == resp.args[2]
     IN /\ resp.outcome = "ok"
        /\ Len(resp.result.setCols) = Len(data)
        /\ Len(resp.result.values) = Len(data)
        /\ \A i \in 1..Len(data) :
             /\ resp.result.setCols[i].pos = i
             /\ data[i][1] \in DOMAIN jsToSql
                  => resp.result.setCols[i].col = jsToSql[data[i][1]]
             /\ data[i][1] \notin DOMAIN jsToSql
                  => resp.result.setCols[i].col = data[i][1]
             /\ resp.result.values[i] = data[i][2]

\* C7 witness: two fields, the second of them renamed by the mapping
C7_Witness ==
  /\ resp.op = "sqlForPartialUpdate"
  /\ resp.outcome = "ok"
  /\ Len(resp.args[1]) = 2
  /\ resp.args[1][1][1] = "f1"
  /\ resp.args[1][2][1] = "jsF2"
  /\ resp.result.setCols = <<[col |-> "f1", pos |-> 1], [col |-> "f2", pos |-> 2]>>

(***************************************************************************)
(* The filtered queries as functions of the store and the filters: both    *)
(* are drawn at the start and one call applies findAll                     *)
(***************************************************************************)
PatChars == {"c", "j", "1", "_", "%"}

\* the texts of at most MaxPatLen characters
Texts == UNION {[1..k -> PatChars] : k \in 0..MaxPatLen}

TextFilters == {Undefined} \cup {Some(t) : t \in Texts}

NumFilters == {Undefined} \cup {Some(n) : n \in 0..MaxNum}

FindCompanyRows ==
  {[handle |-> "c1", name |-> TxtC1, description |-> "Desc1",
    num_employees |-> Some(1), logo_url |-> Some("http://c1.img")],
   [handle |-> "c2", name |-> TxtC2, description |-> "Desc2",
    num_employees |-> Some(2), logo_url |-> Some("http://c2.img")],
   [handle |-> "c3", name |-> TxtNew, description |-> "Desc3",
    num_employees |-> Null, logo_url |-> Null],
   [handle |-> "c4", name |-> TxtC1, description |-> "Desc4",
    num_employees |-> Some(3), logo_url |-> Null]}

CompanyFilters ==
  [name : TextFilters, minEmployees : NumFilters, maxEmployees : NumFilters]

InitCompanyFind ==
  /\ companies \in SUBSET FindCompanyRows
  /\ jobs = {}
  /\ users = {}
  /\ applications = {}
  /\ nextJobId = 1
  /\ resp \in {Input(<<f>>) : f \in CompanyFilters}
  /\ inflight = {}
  /\ http = NoRequest

CompanyFindAllCall ==
  /\ resp.op = "input"
  /\ CompanyFindAll(resp.args[1])
  /\ UNCHANGED <<inflight, http>>

SpecCompanyFind == InitCompanyFind /\ [][CompanyFindAllCall]_vars

InvertedBounds(f) ==
  /\ f.minEmployees # Undefined
  /\ f.maxEmployees # Undefined
  /\ f.minEmployees[1] > f.maxEmployees[1]

\* C8: Company.findAll with both bounds and minEmployees > maxEmployees fails
\* with BadRequest before any query is issued; with minEmployees <=
\* maxEmployees or a bound absent it does not fail.
C8_InvertedBoundsRejected ==
  resp.op = "Company.findAll"
  => /\ InvertedBounds(resp.args[1])
          => (resp.outcome = "BadRequest" /\ resp.queries = 0)
     /\ ~InvertedBounds(resp.args[1]) => resp.outcome = "ok"

\* C8 witness: equal bounds have been accepted and have selected a company
C8_Witness ==
  /\ resp.op = "Company.findAll"
  /\ resp.args[1].minEmployees = Some(2)
  /\ resp.args[1].maxEmployees = Some(2)
  /\ resp.outcome = "ok"
  /\ Len(resp.result) = 1

\* the claimed meaning of the company filters
CompanySatisfies(c, f) ==
  /\ f.minEmployees # Undefined
       => (c.num_employees # Null /\ c.num_employees[1] >= f.minEmployees[1])
  /\ f.maxEmployees # Undefined
       => (c.num_employees # Null /\ c.num_employees[1] <= f.maxEmployees[1])
  /\ f.name # Undefined => Contains(c.name, f.name[1])

\* C9: Company.findAll returns exactly the companies that satisfy every
\* supplied filter: numEmployees >= minEmployees, numEmployees <=
\* maxEmployees, name containing the given text with letter case ignored; a
\* company with a null employee count is left out whenever a bound is given.
C9_FindAllIsConjunction ==
  (resp.op = "Company.findAll" /\ resp.outcome = "ok")
  => /\ Range(resp.result) =
          {CompanyProj(c) : c \in {x \in companies :
                                     CompanySatisfies(x, resp.args[1])}}
     /\ Len(resp.result) = Cardinality(Range(resp.result))

FindJobCompanies ==
  {r \in FindCompanyRows : r.handle \in {"c1", "c2"}}

FindJobRows ==
  {[id |-> 1, title |-> TxtJ1, salary |-> Some(1), equity |-> Some("0.1"),
    company_handle |-> "c1"],
   [id |-> 2, title |-> TxtJ2, salary |-> Some(2), equity |-> Some("0"),
    company_handle |-> "c1"],
   [id |-> 3, title |-> TxtNew, salary |-> Null, equity |-> Null,
    company_handle |-> "c2"],
   [id |-> 4, title |-> TxtJ1, salary |-> Some(3), equity |-> Some("0.2"),
    company_handle |-> "c2"]}

JobFilters ==
  [minSalary : NumFilters, hasEquity : {Undefined, Some(TRUE), Some(FALSE)},
   title : TextFilters]

InitJobFind ==
  /\ companies = FindJobCompanies
  /\ jobs \in SUBSET FindJobRows
  /\ users = {}
  /\ applications = {}
  /\ nextJobId = 5
  /\ resp \in {Input(<<f>>) : f \in JobFilters}
  /\ inflight = {}
  /\ http = NoRequest

JobFindAllCall ==
  /\ resp.op = "input"
  /\ JobFindAll(resp.args[1])
  /\ UNCHANGED <<inflight, http>>

SpecJobFind == InitJobFind /\ [][JobFindAllCall]_vars

\* the claimed meaning of the job filters
JobSatisfies(j, f) ==
  /\ f.minSalary # Undefined
       => (j.salary # Null /\ j.salary[1] >= f.minSalary[1])
  /\ f.hasEquity = Some(TRUE)
       => (j.equity # Null /\ NumericValue(j.equity[1]) > 0)
  /\ f.title # Undefined => Contains(j.title, f.title[1])

\* the claimed list entry of a job: its fields and its company's name
JobWithCompanyName(j) ==
  [id |-> j.id, title |-> j.title, salary |-> j.salary, equity |-> j.equity,
   companyHandle |-> j.company_handle,
   companyName |-> Some(RowOf(companies, "handle", j.company_handle).name)]

\* C10: Job.findAll returns exactly the jobs that satisfy all supplied
\* filters at once: salary >= minSalary, equity > 0 when hasEquity is true,
\* title containing the given text with letter case ignored; each returned
\* job carries its company's name as companyName.
C10_JobFindAllIsConjunction ==
  (resp.op = "Job.findAll" /\ resp.outcome = "ok")
  => /\ Range(resp.result) =
          {JobWithCompanyName(j) : j \in {x \in jobs :
                                           JobSatisfies(x, resp.args[1])}}
     /\ Len(resp.result) = Cardinality(Range(resp.result))

\* C11: in Job.findAll, hasEquity false or omitted never narrows the result,
\* which is the one obtained without the hasEquity filter, and hasEquity true
\* leaves exactly the jobs of that result whose equity is strictly greater
\* than zero, so none with equity "0" and none with null equity.
C11_HasEquityFilter ==
  resp.op = "Job.findAll"
  => LET f == resp.args[1]
         unfiltered ==
           {JobListProj(r) :
              r \in JobFindAllRows([f EXCEPT !.hasEquity = Undefined])}
     IN /\ f.hasEquity # Some(TRUE) => Range(resp.result) = unfiltered
        /\ f.hasEquity = Some(TRUE)
             => /\ Range(resp.result) =
                     {j \in unfiltered :
                        j.equity # Null /\ NumericValue(j.equity[1]) > 0}
                /\ \A i \in DOMAIN resp.result :
                     resp.result[i].equity \notin {Null, Some("0")}

\* C11 witness: with a job of equity "0" and a job of null equity in the
\* store, hasEquity true alone has returned the two other jobs
C11_Witness ==
  /\ resp.op = "Job.findAll"
  /\ resp.args[1] =
       [minSalary |-> Undefined, hasEquity |-> Some(TRUE), title |-> Undefined]
  /\ jobs = FindJobRows
  /\ Len(resp.result) = 2

(***************************************************************************)
(* The listings called again: the same findAll, with the same filters, on  *)
(* the same store                                                          *)
(***************************************************************************)
InitFindAgain == InitJobFind \/ InitCompanyFind

JobFindAllAgain ==
  /\ resp.op \in {"input", "Job.findAll"}
  /\ "title" \in DOMAIN resp.args[1]
  /\ JobFindAll(resp.args[1])
  /\ UNCHANGED <<inflight, http>>

CompanyFindAllAgain ==
  /\ resp.op \in {"input", "Company.findAll"}
  /\ "name" \in DOMAIN resp.args[1]
  /\ CompanyFindAll(resp.args[1])
  /\ UNCHANGED <<inflight, http>>

NextFindAgain == JobFindAllAgain \/ CompanyFindAllAgain

SpecFindAgain == InitFindAgain /\ [][NextFindAgain]_vars

NoFilter(f) == \A k \in DOMAIN f : f[k] = Undefined

\* the column the listing of op is ordered by
SortKey(op) == IF op = "Company.findAll" THEN "name" ELSE "title"

\* a listing ascends by its sort column, and with no filter it has every row
C12_Ascending ==
  (resp'.op \in {"Company.findAll", "Job.findAll"} /\ resp'.outcome = "ok")
  => /\ \A i, j \in DOMAIN resp'.result :
          i < j => StrLeq(resp'.result[i][SortKey(resp'.op)],
                          resp'.result[j][SortKey(resp'.op)])
     /\ NoFilter(resp'.args[1])
          => Len(resp'.result) =
               Cardinality(IF resp'.op = "Company.findAll"
                           THEN companies ELSE jobs)

\* the same call on the same store returns the same sequence
C12_SameSequence ==
  (/\ resp.op \in {"Company.findAll", "Job.findAll"}
   /\ resp'.op = resp.op
   /\ resp'.args = resp.args
   /\ store' = store)
  => resp'.result = resp.result

\* C12: the row order of Company.findAll and Job.findAll is deterministic,
\* ascending by name (companies) or title (jobs) whichever filters are
\* applied: two calls on the same store with the same filters return the
\* same sequence, and with no filter the result is every row in that order.
C12_DeterministicOrder == [][C12_Ascending /\ C12_SameSequence]_vars

\* the part of C12 that does not depend on rows with equal sort values
C12_AscendingOrder == [][C12_Ascending]_vars

\* C13: Company.get of an existing handle returns the company's fields
\* together with its jobs, the list of the jobs whose company handle is that
\* handle.
C13_CompanyGetIncludesJobs ==
  (resp.op = "Company.get" /\ resp.outcome = "ok")
  => /\ \A f \in {"handle", "name", "description", "numEmployees", "logoUrl"} :
          f \in DOMAIN resp.result
     /\ "jobs" \in DOMAIN resp.result
     /\ {resp.result.jobs[i].id : i \in DOMAIN resp.result.jobs} =
          {j.id : j \in {x \in jobs : x.company_handle = resp.args[1]}}

(***************************************************************************)
(* Job.get among other requests: its two queries are two steps, and the    *)
(* other calls, one statement each, can run between them                   *)
(***************************************************************************)
JobGetSelectJobCall ==
  \E id \in JobIdArgs : JobGetSelectJob(id) /\ UNCHANGED http

JobGetSelectCompanyCall ==
  \E call \in inflight : JobGetSelectCompany(call) /\ UNCHANGED http

NextJobGetRace ==
  \/ CompanyCreateCall
  \/ CompanyRemoveCall
  \/ JobCreateCall
  \/ JobUpdateCall
  \/ JobRemoveCall
  \/ JobGetSelectJobCall
  \/ JobGetSelectCompanyCall

SpecJobGetRace == Init /\ [][NextJobGetRace]_vars

CompanyDetail == {"handle", "name", "description", "numEmployees", "logoUrl"}

\* C14: every successful Job.get returns the job with a company field that
\* holds the owning company's detail {handle, name, description,
\* numEmployees, logoUrl} and without companyHandle; the company field is
\* never missing or undefined, also when other requests, such as the removal
\* of the owning company, run between the two queries of Job.get.
C14_JobGetHasCompany ==
  (resp.op = "Job.get" /\ resp.outcome = "ok")
  => /\ DOMAIN resp.result = {"id", "title", "salary", "equity", "company"}
     /\ resp.result.company # Undefined
     /\ DOMAIN resp.result.company = CompanyDetail

(***************************************************************************)
(* The middleware: identity extraction and the three gates.  A request is  *)
(* [headers |-> [authorization |-> header], params |-> [username |-> u]];  *)
(* a header is Undefined or <<[scheme, token]>>, the string scheme \o      *)
(* token; res.locals is [user |-> Undefined or <<payload>>].               *)
(***************************************************************************)
SECRET_KEY == "secret-dev"

\* jwt.verify(token, key): the payload of a well-formed token signed with
\* key that has not expired; an error otherwise
jwtVerify(token, key) ==
  IF token.kind = "jwt" /\ token.secret = key /\ ~token.expired
  THEN [err |-> FALSE, payload |-> token.payload]
  ELSE [err |-> TRUE, payload |-> Undefined]

\* a header string is truthy unless it is the empty string
Truthy(header) ==
  header # Undefined
  /\ ~(header[1].scheme = "" /\ header[1].token.kind = "empty")

\* authHeader.replace(/^[Bb]earer /, "").trim(): the token after the prefix,
\* or the whole string, which is no token if another prefix is left in it
StripBearer(h) ==
  IF h.scheme \in {"Bearer ", "bearer ", ""} THEN h.token
  ELSE [kind |-> "garbage"]

\* authenticateJWT that passes the error of jwt.verify on
authenticateJWTStrict(req, locals) ==
  LET authHeader == req.headers.authorization
      verified == jwtVerify(StripBearer(authHeader[1]), SECRET_KEY)
  IN IF Truthy(authHeader)
     THEN IF verified.err
          THEN [err |-> "Unauthorized", locals |-> locals]
          ELSE [err |-> "none",
                locals |-> [locals EXCEPT !.user = Some(verified.payload)]]
     ELSE [err |-> "none", locals |-> locals]

authenticateJWT(req, locals) ==
  LET authHeader == req.headers.authorization
      verified == jwtVerify(StripBearer(authHeader[1]), SECRET_KEY)
  IN IF Truthy(authHeader)
     THEN IF verified.err
          THEN [err |-> "none", locals |-> locals]
          ELSE [err |-> "none",
                locals |-> [locals EXCEPT !.user = Some(verified.payload)]]
     ELSE [err |-> "none", locals |-> locals]

\* ensureLoggedIn that asks for the admin flag as well
ensureLoggedInAdminOnly(req, locals) ==
  IF locals.user = Undefined \/ ~locals.user[1].isAdmin
  THEN [err |-> "Unauthorized"]
  ELSE [err |-> "none"]

ensureLoggedIn(req, locals) ==
  IF locals.user = Undefined THEN [err |-> "Unauthorized"]
  ELSE [err |-> "none"]

\* ensureAdmin that asks the store whether the user of the identity is there
\* and is an admin now
ensureAdminFromStore(req, locals) ==
  LET user == locals.user
  IN IF /\ user # Undefined
        /\ \E r \in users : r.username = user[1].username /\ r.is_admin
     THEN [err |-> "none"]
     ELSE [err |-> "Unauthorized"]

\* ensureAdmin that admits every identity
ensureAdminAnyUser(req, locals) ==
  LET user == locals.user
  IN IF user # Undefined THEN [err |-> "none"]
     ELSE [err |-> "Unauthorized"]

ensureAdmin(req, locals) ==
  LET user == locals.user
  IN IF user # Undefined /\ user[1].isAdmin THEN [err |-> "none"]
     ELSE [err |-> "Unauthorized"]

\* ensureCorrectUserOrAdmin without the comparison of the usernames
ensureCorrectUserOrAdminAdminOnly(req, locals) ==
  LET user == locals.user
  IN IF user # Undefined /\ user[1].isAdmin
     THEN [err |-> "none"]
     ELSE [err |-> "Unauthorized"]

ensureCorrectUserOrAdmin(req, locals) ==
  LET user == locals.user
  IN IF user # Undefined
        /\ (user[1].isAdmin \/ user[1].username = req.params.username)
     THEN [err |-> "none"]
     ELSE [err |-> "Unauthorized"]

(***************************************************************************)
(* The middleware as functions: the request and res.locals are drawn at    *)
(* the start and one call applies one middleware to them                   *)
(***************************************************************************)
Payloads ==
  {[username |-> "u1", isAdmin |-> FALSE],
   [username |-> "u2", isAdmin |-> FALSE],
   [username |-> "admin", isAdmin |-> TRUE]}

Tokens ==
  [kind : {"jwt"}, payload : Payloads, secret : {SECRET_KEY, "other"},
   expired : BOOLEAN]
  \cup {[kind |-> "garbage"], [kind |-> "empty"]}

Headers ==
  {Undefined}
  \cup {Some([scheme |-> sc, token |-> t]) :
          sc \in {"Bearer ", "bearer ", "", "Basic "}, t \in Tokens}

PathUsernames == {"u1", "u2", "admin"}

Requests ==
  {[headers |-> [authorization |-> h], params |-> [username |-> u]] :
     h \in Headers, u \in PathUsernames}

Locals == {[user |-> u] : u \in {Undefined} \cup {Some(p) : p \in Payloads}}

InitMiddleware ==
  /\ EmptyStore
  /\ resp \in {Input(<<req, locals>>) : req \in Requests, locals \in Locals}
  /\ inflight = {}
  /\ http = NoRequest

\* next() or next(err), and res.locals as the middleware leaves it
MiddlewareResp(name, r, locals) ==
  IF r.err # "none" THEN Throw(name, resp.args, r.err, 0)
  ELSE Ok(name, resp.args, locals, 0)

authenticateJWTCall ==
  /\ resp.op = "input"
  /\ resp.args[2].user = Undefined
  /\ LET r == authenticateJWT(resp.args[1], resp.args[2])
     IN resp' = MiddlewareResp("authenticateJWT", r, r.locals)
  /\ UNCHANGED <<store, inflight, http>>

ensureLoggedInCall ==
  /\ resp.op = "input"
  /\ resp' = MiddlewareResp("ensureLoggedIn",
                            ensureLoggedIn(resp.args[1], resp.args[2]),
                            resp.args[2])
  /\ UNCHANGED <<store, inflight, http>>

ensureAdminCall ==
  /\ resp.op = "input"
  /\ resp' = MiddlewareResp("ensureAdmin",
                            ensureAdmin(resp.args[1], resp.args[2]),
                            resp.args[2])
  /\ UNCHANGED <<store, inflight, http>>

ensureCorrectUserOrAdminCall ==
  /\ resp.op = "input"
  /\ resp' = MiddlewareResp("ensureCorrectUserOrAdmin",
                            ensureCorrectUserOrAdmin(resp.args[1],
                                                     resp.args[2]),
                            resp.args[2])
  /\ UNCHANGED <<store, inflight, http>>

NextMiddleware ==
  \/ authenticateJWTCall
  \/ ensureLoggedInCall
  \/ ensureAdminCall
  \/ ensureCorrectUserOrAdminCall

SpecMiddleware == InitMiddleware /\ [][NextMiddleware]_vars

\* the header carries a well-formed, unexpired token signed with SECRET_KEY,
\* bare or after the prefix "Bearer " or "bearer "
CarriesValidToken(header) ==
  /\ header # Undefined
  /\ header[1].scheme \in {"Bearer ", "bearer ", ""}
  /\ header[1].token.kind = "jwt"
  /\ header[1].token.secret = SECRET_KEY
  /\ ~header[1].token.expired

\* C15: authenticateJWT never fails a request: it always passes control on
\* without an error; the identity is set to the token payload if and only if
\* an authorization header is present and its token verifies, and a request
\* with an invalid or expired credential is left exactly like a request with
\* no credential, with no identity.
C15_SoftAuthentication ==
  resp.op = "authenticateJWT"
  => LET header == resp.args[1].headers.authorization
     IN /\ resp.outcome = "ok"
        /\ CarriesValidToken(header)
             => resp.result = [user |-> Some(header[1].token.payload)]
        /\ ~CarriesValidToken(header) => resp.result = [user |-> Undefined]

\* C15 witness: a request with an expired token of the admin has been passed
\* on with no identity
C15_Witness ==
  /\ resp.op = "authenticateJWT"
  /\ resp.outcome = "ok"
  /\ resp.args[1].headers.authorization # Undefined
  /\ resp.args[1].headers.authorization[1].token =
       [kind |-> "jwt", payload |-> [username |-> "admin", isAdmin |-> TRUE],
        secret |-> SECRET_KEY, expired |-> TRUE]
  /\ resp.result.user = Undefined

\* C17: ensureAdmin admits a request if and only if an identity is present
\* and carries the admin flag; an absent identity and a non-admin identity
\* both fail with Unauthorized.
C17_AdminGate ==
  resp.op = "ensureAdmin"
  => LET user == resp.args[2].user
     IN /\ resp.outcome \in {"ok", "Unauthorized"}
        /\ resp.outcome = "ok" <=> (user # Undefined /\ user[1].isAdmin)
        /\ user = Undefined => resp.outcome = "Unauthorized"
        /\ (user # Undefined /\ ~user[1].isAdmin)
             => resp.outcome = "Unauthorized"

\* C17 witness: the identity of u1, who is no admin, has been refused
C17_Witness ==
  /\ resp.op = "ensureAdmin"
  /\ resp.args[2].user = Some([username |-> "u1", isAdmin |-> FALSE])
  /\ resp.outcome = "Unauthorized"

\* C18: ensureCorrectUserOrAdmin admits a request if and only if an identity
\* is present and either it is admin or its username equals the username in
\* the path: user B on user A's record is refused with Unauthorized, user A
\* and any admin are admitted.
C18_SelfOrAdminGate ==
  resp.op = "ensureCorrectUserOrAdmin"
  => LET user == resp.args[2].user
         target == resp.args[1].params.username
     IN /\ resp.outcome \in {"ok", "Unauthorized"}
        /\ resp.outcome = "ok"
             <=> (user # Undefined
                  /\ (user[1].isAdmin \/ user[1].username = target))
        /\ (user # Undefined /\ user[1].username = target)
             => resp.outcome = "ok"
        /\ (user # Undefined /\ user[1].isAdmin) => resp.outcome = "ok"

\* C18 witness: u2 on the record of u1 has been refused
C18_Witness ==
  /\ resp.op = "ensureCorrectUserOrAdmin"
  /\ resp.args[2].user = Some([username |-> "u2", isAdmin |-> FALSE])
  /\ resp.args[1].params.username = "u1"
  /\ resp.outcome = "Unauthorized"

(***************************************************************************)
(* The routes.  A request is [headers, params, body] or, for a listing,    *)
(* [headers, query]; authenticateJWT runs before every route, then the     *)
(* route's gate, then its handler.                                         *)
(***************************************************************************)
\* the status the error handler sends for an error
Status(err) ==
  CASE err = "Unauthorized" -> 401
    [] err = "BadRequest" -> 400
    [] err = "NotFound" -> 404
    [] OTHER -> 500

\* res.locals when the route's middleware starts
Identify(req) == authenticateJWT(req, [user |-> Undefined]).locals

\* the response to a request that a gate or the validation has refused
Refuse(route, req, err) ==
  /\ http' = [route |-> route, status |-> Status(err), req |-> req]
  /\ UNCHANGED <<store, resp, inflight>>

\* the response after the handler has called the model
Respond(route, req, okStatus) ==
  /\ http' = [route |-> route,
              status |-> IF resp'.outcome = "ok" THEN okStatus
                         ELSE Status(resp'.outcome),
              req |-> req]
  /\ UNCHANGED inflight

\* jsonschema.validate against jobNew.json, jobUpdate.json, companyNew.json
\* and companyUpdate.json
ValidJobNew(body) == {"title", "companyHandle"} \subseteq DOMAIN body

ValidJobUpdate(body) ==
  \A i \in DOMAIN body : body[i][1] \in {"title", "salary", "equity"}

ValidCompanyNew(body) ==
  {"handle", "name", "description"} \subseteq DOMAIN body

\* companyUpdate.json with the handle among the properties
ValidCompanyUpdateWithHandle(body) ==
  \A i \in DOMAIN body :
    body[i][1] \in {"handle", "name", "description", "numEmployees",
                    "logoUrl"}

ValidCompanyUpdate(body) ==
  \A i \in DOMAIN body :
    body[i][1] \in {"name", "description", "numEmployees", "logoUrl"}

\* +s is a number for a numeral and NaN otherwise
IsNumeral(s) == s \in {"0", "1", "2"}

ToNumber(s) == CASE s = "0" -> 0 [] s = "1" -> 1 [] s = "2" -> 2

\* jsonschema.validate of the converted query against jobSearch.json
ValidJobSearch(query) ==
  query.minSalary # Undefined => IsNumeral(query.minSalary[1])

PostJobs(req) ==
  LET locals == Identify(req)
  IN IF ensureAdmin(req, locals).err # "none"
     THEN Refuse("POST /jobs", req, "Unauthorized")
     ELSE IF ~ValidJobNew(req.body)
     THEN Refuse("POST /jobs", req, "BadRequest")
     ELSE JobCreate(req.body) /\ Respond("POST /jobs", req, 201)

GetJobs(req) ==
  LET q == [minSalary |-> IF req.query.minSalary # Undefined
                          THEN Some(ToNumber(req.query.minSalary[1]))
                          ELSE Undefined,
            hasEquity |-> Some(req.query.hasEquity = Some("true")),
            title |-> req.query.title]
  IN IF ~ValidJobSearch(req.query)
     THEN Refuse("GET /jobs", req, "BadRequest")
     ELSE JobFindAll(q) /\ Respond("GET /jobs", req, 200)

GetJob(req) == JobGet(req.params.id) /\ Respond("GET /jobs/:id", req, 200)

\* PATCH /jobs/:id with the job looked up ahead of the validation
PatchJobLookingUpFirst(req) ==
  LET locals == Identify(req)
  IN IF ensureAdmin(req, locals).err # "none"
     THEN Refuse("PATCH /jobs/:id", req, "Unauthorized")
     ELSE IF req.params.id \notin {j.id : j \in jobs}
     THEN Refuse("PATCH /jobs/:id", req, "NotFound")
     ELSE IF ~ValidJobUpdate(req.body)
     THEN Refuse("PATCH /jobs/:id", req, "BadRequest")
     ELSE /\ JobUpdate(req.params.id, req.body)
          /\ Respond("PATCH /jobs/:id", req, 200)

\* PATCH /jobs/:id with the validation of the body ahead of the gate
PatchJobValidatingFirst(req) ==
  LET locals == Identify(req)
  IN IF ~ValidJobUpdate(req.body)
     THEN Refuse("PATCH /jobs/:id", req, "BadRequest")
     ELSE IF ensureAdmin(req, locals).err # "none"
     THEN Refuse("PATCH /jobs/:id", req, "Unauthorized")
     ELSE /\ JobUpdate(req.params.id, req.body)
          /\ Respond("PATCH /jobs/:id", req, 200)

PatchJob(req) ==
  LET locals == Identify(req)
  IN IF ensureAdmin(req, locals).err # "none"
     THEN Refuse("PATCH /jobs/:id", req, "Unauthorized")
     ELSE IF ~ValidJobUpdate(req.body)
     THEN Refuse("PATCH /jobs/:id", req, "BadRequest")
     ELSE /\ JobUpdate(req.params.id, req.body)
          /\ Respond("PATCH /jobs/:id", req, 200)

\* DELETE /jobs/:id without a gate
DeleteJobUngated(req) ==
  JobRemove(req.params.id) /\ Respond("DELETE /jobs/:id", req, 200)

DeleteJob(req) ==
  LET locals == Identify(req)
  IN IF ensureAdmin(req, locals).err # "none"
     THEN Refuse("DELETE /jobs/:id", req, "Unauthorized")
     ELSE JobRemove(req.params.id) /\ Respond("DELETE /jobs/:id", req, 200)

PostCompanies(req) ==
  LET locals == Identify(req)
  IN IF ensureLoggedIn(req, locals).err # "none"
     THEN Refuse("POST /companies", req, "Unauthorized")
     ELSE IF ~ValidCompanyNew(req.body)
     THEN Refuse("POST /companies", req, "BadRequest")
     ELSE CompanyCreate(req.body) /\ Respond("POST /companies", req, 201)

PatchCompany(req) ==
  LET locals == Identify(req)
  IN IF ensureLoggedIn(req, locals).err # "none"
     THEN Refuse("PATCH /companies/:handle", req, "Unauthorized")
     ELSE IF ~ValidCompanyUpdate(req.body)
     THEN Refuse("PATCH /companies/:handle", req, "BadRequest")
     ELSE /\ CompanyUpdate(req.params.handle, req.body)
          /\ Respond("PATCH /companies/:handle", req, 200)

DeleteCompany(req) ==
  LET locals == Identify(req)
  IN IF ensureLoggedIn(req, locals).err # "none"
     THEN Refuse("DELETE /companies/:handle", req, "Unauthorized")
     ELSE /\ CompanyRemove(req.params.handle)
          /\ Respond("DELETE /companies/:handle", req, 200)

(***************************************************************************)
(* The requests of the routes specification: the callers are nobody, u1,   *)
(* the admin, and somebody with an admin token signed with another key     *)
(***************************************************************************)
Bearer(payload, secret) ==
  Some([scheme |-> "Bearer ",
        token |-> [kind |-> "jwt", payload |-> payload, secret |-> secret,
                   expired |-> FALSE]])

u1Token == Bearer([username |-> "u1", isAdmin |-> FALSE], SECRET_KEY)

adminToken == Bearer([username |-> "admin", isAdmin |-> TRUE], SECRET_KEY)

forgedToken == Bearer([username |-> "admin", isAdmin |-> TRUE], "other")

RouteHeaders ==
  {[authorization |-> h] :
     h \in {Undefined, u1Token, adminToken, forgedToken}}

NewJobBodies ==
  {[title |-> TxtJ1, salary |-> Some(1), equity |-> Some("0.1"),
    companyHandle |-> "c1"],
   [salary |-> Some(1), equity |-> Some("0.1"), companyHandle |-> "c1"]}

JobUpdateBodies ==
  {<< <<"title", TxtNew>> >>, << <<"companyHandle", "nope">> >>}

JobQueries ==
  {[minSalary |-> Undefined, hasEquity |-> Undefined, title |-> Undefined],
   [minSalary |-> Some("1"), hasEquity |-> Some("true"),
    title |-> Undefined],
   [minSalary |-> Some("abc"), hasEquity |-> Undefined,
    title |-> Undefined]}

NewCompanyBodies ==
  NewCompanies
  \cup {[handle |-> "c1", description |-> "Desc1", numEmployees |-> Some(1),
         logoUrl |-> Some("http://c1.img")]}

CompanyUpdateBodies ==
  {<< <<"name", TxtNew>> >>, << <<"handle", "c1-new">> >>}

InitRoutes ==
  /\ companies =
       {[handle |-> "c1", name |-> TxtC1, description |-> "Desc1",
         num_employees |-> Some(1), logo_url |-> Some("http://c1.img")]}
  /\ jobs = {}
  /\ users = {}
  /\ applications = {}
  /\ nextJobId = 1
  /\ resp = NoResp
  /\ inflight = {}
  /\ http = NoRequest

PostJobsCall ==
  \E h \in RouteHeaders, b \in NewJobBodies :
    /\ PostJobs([headers |-> h, body |-> b])

GetJobsCall ==
  \E h \in RouteHeaders, q \in JobQueries :
    /\ GetJobs([headers |-> h, query |-> q])

GetJobCall ==
  \E h \in RouteHeaders, id \in JobIdArgs :
    /\ GetJob([headers |-> h, params |-> [id |-> id]])

PatchJobCall ==
  \E h \in RouteHeaders, id \in JobIdArgs, b \in JobUpdateBodies :
    /\ PatchJob([headers |-> h, params |-> [id |-> id], body |-> b])

DeleteJobCall ==
  \E h \in RouteHeaders, id \in JobIdArgs :
    /\ DeleteJob([headers |-> h, params |-> [id |-> id]])

PostCompaniesCall ==
  \E h \in RouteHeaders, b \in NewCompanyBodies :
    /\ PostCompanies([headers |-> h, body |-> b])

PatchCompanyCall ==
  \E h \in RouteHeaders, handle \in HandleArgs,
     b \in CompanyUpdateBodies :
    /\ PatchCompany([headers |-> h, params |-> [handle |-> handle],
                     body |-> b])

DeleteCompanyCall ==
  \E h \in RouteHeaders, handle \in HandleArgs :
    /\ DeleteCompany([headers |-> h, params |-> [handle |-> handle]])

NextRoutes ==
  \/ PostJobsCall
  \/ GetJobsCall
  \/ GetJobCall
  \/ PatchJobCall
  \/ DeleteJobCall
  \/ PostCompaniesCall
  \/ PatchCompanyCall
  \/ DeleteCompanyCall

SpecRoutes == InitRoutes /\ [][NextRoutes]_vars

(***************************************************************************)
(* The logged-in gate, alone and on the routes that use it                 *)
(***************************************************************************)
InitLoggedIn == InitMiddleware \/ InitRoutes

\* the state is one of the server with its store, not a drawn input of the
\* middleware or the outcome of one
StoreServed == resp.op \notin {"input", "ensureLoggedIn"}

PostCompaniesRequest == StoreServed /\ PostCompaniesCall

PatchCompanyRequest == StoreServed /\ PatchCompanyCall

DeleteCompanyRequest == StoreServed /\ DeleteCompanyCall

NextLoggedIn ==
  \/ ensureLoggedInCall
  \/ PostCompaniesRequest
  \/ PatchCompanyRequest
  \/ DeleteCompanyRequest

SpecLoggedIn == InitLoggedIn /\ [][NextLoggedIn]_vars

\* the identity a request carries: the payload of a valid token, or none
IdentityOf(req) ==
  IF CarriesValidToken(req.headers.authorization)
  THEN Some(req.headers.authorization[1].token.payload)
  ELSE Undefined

IsAdmin(identity) == identity # Undefined /\ identity[1].isAdmin

LoggedInRoutes ==
  {"POST /companies", "PATCH /companies/:handle", "DELETE /companies/:handle"}

AdminRoutes == {"POST /jobs", "PATCH /jobs/:id", "DELETE /jobs/:id"}

OpenJobRoutes == {"GET /jobs", "GET /jobs/:id"}

\* C16: ensureLoggedIn fails with Unauthorized if and only if no identity is
\* present on the request; any identity, admin or not, is admitted: on the
\* routes that create, patch and delete companies a request is answered 401
\* if and only if it carries no identity.
C16_LoggedInGate ==
  /\ resp.op = "ensureLoggedIn"
       => /\ resp.outcome \in {"ok", "Unauthorized"}
          /\ resp.outcome = "Unauthorized" <=> resp.args[2].user = Undefined
  /\ http.route \in LoggedInRoutes
       => (http.status = 401 <=> IdentityOf(http.req) = Undefined)

\* C16 witness: u1, who is no admin, has deleted company c1
C16_Witness ==
  /\ http.route = "DELETE /companies/:handle"
  /\ http.req.headers.authorization = u1Token
  /\ http.status = 200
  /\ companies = {}

\* the gate of the route refuses the request
GateFails(route, req) ==
  \/ route \in AdminRoutes /\ ~IsAdmin(IdentityOf(req))
  \/ route \in LoggedInRoutes /\ IdentityOf(req) = Undefined

C19_Step ==
  GateFails(http'.route, http'.req)
  => /\ http'.status = 401
     /\ store' = store
     /\ resp' = resp

\* C19: when the gate of a route fails, the handler never runs: the response
\* is 401, no model call is made and the store is unchanged, whatever the
\* body and the target key are (401 and not 400 for an invalid body, not 404
\* for a missing target).
C19_GatesShortCircuit == [][C19_Step]_vars

\* C19 witness: u1 has been refused a patch with an invalid body of a job
\* that does not exist
C19_Witness ==
  /\ http.route = "PATCH /jobs/:id"
  /\ http.req.headers.authorization = u1Token
  /\ http.req.params.id = 0
  /\ ~ValidJobUpdate(http.req.body)
  /\ http.status = 401

C20_Step ==
  LET route == http'.route
      identity == IdentityOf(http'.req)
  IN /\ (route \in AdminRoutes \cup OpenJobRoutes /\ jobs' # jobs)
          => IsAdmin(identity)
     /\ (route \in AdminRoutes /\ ~IsAdmin(identity))
          => (http'.status = 401 /\ store' = store)
     /\ route \in OpenJobRoutes
          => /\ store' = store
             /\ http'.status # 401
             /\ (route = "GET /jobs" /\ ValidJobSearch(http'.req.query))
                  => http'.status = 200
             /\ (route = "GET /jobs/:id"
                 /\ http'.req.params.id \in KeysOf(jobs, "id"))
                  => http'.status = 200

\* C20: on the jobs routes the jobs are changed only by requests that carry
\* an admin identity: POST /jobs, PATCH /jobs/:id and DELETE /jobs/:id from
\* anonymous or non-admin callers return 401 and change nothing; GET /jobs
\* and GET /jobs/:id succeed for every caller, anonymous ones too, and change
\* nothing.
C20_OnlyAdminsChangeJobs == [][C20_Step]_vars

\* C20 witness: an anonymous caller has read the job the admin created
C20_Witness ==
  /\ http.route = "GET /jobs/:id"
  /\ http.req.headers.authorization = Undefined
  /\ http.status = 200
  /\ resp.op = "Job.get"
  /\ resp.result.id = 1

(***************************************************************************)
(* The primary keys under updates: the three PATCH routes, and the models' *)
(* update called without a route in front of it                            *)
(***************************************************************************)
\* jsonschema.validate against userUpdate.json
ValidUserUpdate(body) ==
  \A i \in DOMAIN body :
    body[i][1] \in {"firstName", "lastName", "password", "email"}

PatchUser(req) ==
  LET locals == Identify(req)
  IN IF ensureCorrectUserOrAdmin(req, locals).err # "none"
     THEN Refuse("PATCH /users/:username", req, "Unauthorized")
     ELSE IF ~ValidUserUpdate(req.body)
     THEN Refuse("PATCH /users/:username", req, "BadRequest")
     ELSE /\ UserUpdate(req.params.username, req.body)
          /\ Respond("PATCH /users/:username", req, 200)

UserUpdateBodies ==
  {<< <<"firstName", "NewF">> >>, << <<"username", "u1-new">> >>}

\* update data that names the primary key
CompanyKeyUpdates == {<< <<"handle", "c1-new">> >>}

JobKeyUpdates == {<< <<"id", MaxJobId + 1>> >>}

UserKeyUpdates == {<< <<"username", "u1-new">> >>}

InitKeys ==
  /\ companies =
       {[handle |-> "c1", name |-> TxtC1, description |-> "Desc1",
         num_employees |-> Some(1), logo_url |-> Some("http://c1.img")]}
  /\ jobs = {[id |-> 1, title |-> TxtJ1, salary |-> Some(1),
              equity |-> Some("0.1"), company_handle |-> "c1"]}
  /\ users = {[username |-> "u1", password |-> Hash("password1"),
               first_name |-> "U1F", last_name |-> "U1L",
               email |-> "u1@email.com", is_admin |-> FALSE]}
  /\ applications = {}
  /\ nextJobId = 2
  /\ resp = NoResp
  /\ inflight = {}
  /\ http = NoRequest

PatchUserCall ==
  \E h \in RouteHeaders, username \in UsernameArgs, b \in UserUpdateBodies :
    /\ PatchUser([headers |-> h, params |-> [username |-> username],
                  body |-> b])

\* a call of a model's update that no request has made
CompanyUpdateKeyCall ==
  /\ \E handle \in HandleArgs, data \in CompanyKeyUpdates :
       CompanyUpdate(handle, data)
  /\ http' = NoRequest
  /\ UNCHANGED inflight

JobUpdateKeyCall ==
  /\ \E id \in JobIdArgs, data \in JobKeyUpdates : JobUpdate(id, data)
  /\ http' = NoRequest
  /\ UNCHANGED inflight

UserUpdateKeyCall ==
  /\ \E username \in UsernameArgs, data \in UserKeyUpdates :
       UserUpdate(username, data)
  /\ http' = NoRequest
  /\ UNCHANGED inflight

NextKeys ==
  \/ PatchCompanyCall
  \/ PatchJobCall
  \/ PatchUserCall
  \/ DeleteJobCall
  \/ CompanyUpdateKeyCall
  \/ JobUpdateKeyCall
  \/ UserUpdateKeyCall

SpecKeys == InitKeys /\ [][NextKeys]_vars

PatchRoutes ==
  {"PATCH /companies/:handle", "PATCH /jobs/:id", "PATCH /users/:username"}

KeysUnchanged ==
  /\ KeysOf(companies', "handle") = KeysOf(companies, "handle")
  /\ KeysOf(jobs', "id") = KeysOf(jobs, "id")
  /\ KeysOf(users', "username") = KeysOf(users, "username")

\* the body names the handle of a company or of a job, or a primary key
NamesKey(body) ==
  \E i \in DOMAIN body :
    body[i][1] \in {"handle", "companyHandle", "id", "username"}

\* the gate of the PATCH route admits the request
PatchGatePasses(route, req) ==
  LET identity == IdentityOf(req)
  IN CASE route = "PATCH /companies/:handle" -> identity # Undefined
       [] route = "PATCH /jobs/:id" -> IsAdmin(identity)
       [] route = "PATCH /users/:username" ->
            /\ identity # Undefined
            /\ (identity[1].isAdmin
                \/ identity[1].username = req.params.username)

C21_Step ==
  http'.route \in PatchRoutes
  => /\ KeysUnchanged
     /\ NamesKey(http'.req.body)
          => /\ http'.status \in {400, 401}
             /\ http'.status = 400
                  <=> PatchGatePasses(http'.route, http'.req)
             /\ store' = store

C22_Step ==
  /\ resp'.op = "User.applyToJob"
       => LET username == resp'.args[1]
              jobId == resp'.args[2]
              row == [username |-> username, job_id |-> jobId]
              bothExist == /\ username \in KeysOf(users, "username")
                           /\ jobId \in KeysOf(jobs, "id")
          IN /\ row \in applications' <=> bothExist
             /\ resp'.outcome = "NotFound" <=> ~bothExist
             /\ resp'.outcome # "ok" => store' = store
             /\ resp'.outcome = "ok"
                  => /\ applications' = applications \cup {row}
                     /\ UNCHANGED <<companies, jobs, users>>
  /\ (resp.op = "User.applyToJob" /\ resp.outcome = "ok"
      /\ resp'.op = "User.get" /\ resp'.args[1] = resp.args[1])
       => /\ resp'.outcome = "ok"
          /\ resp.args[2] \in Range(resp'.result.applications)

\* C22: after User.applyToJob(username, jobId) the application (username,
\* jobId) is recorded if and only if both the user and the job exist; when
\* either does not exist the call fails with NotFound and the store is
\* unchanged, and these are its only NotFound failures; a successful call
\* adds exactly that row, and a User.get(username) that follows it returns
\* applications that contain jobId.
C22_ApplyToJob == [][C22_Step]_vars

\* C22 witness: u1 has applied to job 1 and User.get("u1") has listed it
C22_Witness ==
  /\ resp.op = "User.get"
  /\ resp.outcome = "ok"
  /\ resp.result.applications = <<1>>
  /\ applications = {[username |-> "u1", job_id |-> 1]}

(***************************************************************************)
(* The users and their passwords: register, authenticate, findAll, get and *)
(* update, for the users u1 and u2 of the tests and a username nobody has  *)
(***************************************************************************)
AuthUsers ==
  {[username |-> "u1", password |-> "password1", firstName |-> "U1F",
    lastName |-> "U1L", email |-> "u1@email.com", isAdmin |-> FALSE],
   [username |-> "u2", password |-> "password2", firstName |-> "U2F",
    lastName |-> "U2L", email |-> "u2@email.com", isAdmin |-> FALSE]}

AuthUsernames == {"u1", "u2", "nope"}

PasswordArgs == {"password1", "password2", "new"}

PasswordUpdates ==
  {<< <<"password", "new">> >>, << <<"firstName", "NewF">> >>}

InitUsers ==
  /\ companies = {}
  /\ jobs = {}
  /\ users = {}
  /\ applications = {}
  /\ nextJobId = 1
  /\ resp = NoResp
  /\ inflight = {}
  /\ http = NoRequest

RegisterCall ==
  \E d \in AuthUsers : UserRegister(d) /\ UNCHANGED <<inflight, http>>

AuthenticateCall ==
  \E u \in AuthUsernames, p \in PasswordArgs :
    UserAuthenticate(u, p) /\ UNCHANGED <<inflight, http>>

FindAllUsersCall == UserFindAll /\ UNCHANGED <<inflight, http>>

GetUserCall ==
  \E u \in AuthUsernames : UserGet(u) /\ UNCHANGED <<inflight, http>>

UpdatePasswordCall ==
  \E u \in AuthUsernames, d \in PasswordUpdates :
    UserUpdate(u, d) /\ UNCHANGED <<inflight, http>>

NextUsers ==
  \/ RegisterCall
  \/ AuthenticateCall
  \/ FindAllUsersCall
  \/ GetUserCall
  \/ UpdatePasswordCall

SpecUsers == InitUsers /\ [][NextUsers]_vars

Hashes == {Hash(p) : p \in PasswordArgs}

\* the projection has no password field, and none of its texts is a
\* password or the hash of one
NoPassword(proj) ==
  /\ "password" \notin DOMAIN proj
  /\ \A f \in {"username", "firstName", "lastName", "email"} :
       proj[f] \notin PasswordArgs \cup Hashes

\* the password that data sets, if it sets one
PasswordIn(data) ==
  IF \E i \in DOMAIN data : data[i][1] = "password"
  THEN Some(data[CHOOSE i \in DOMAIN data : data[i][1] = "password"][2])
  ELSE Undefined

\* C23: no projection that register, authenticate, findAll, get or update
\* returns contains the password or its hash, and the stored password of
\* every user is a hash and never the plaintext: after register it is the
\* hash of the registered password, after an update that sets a password it
\* is the hash of the new one.
C23_PasswordsHidden ==
  /\ \A u \in users :
       u.password \in Hashes /\ u.password \notin PasswordArgs
  /\ (resp.op \in {"User.register", "User.authenticate", "User.get",
                   "User.update"} /\ resp.outcome = "ok")
       => NoPassword(resp.result)
  /\ resp.op = "User.findAll"
       => \A i \in DOMAIN resp.result : NoPassword(resp.result[i])
  /\ (resp.op = "User.register" /\ resp.outcome = "ok")
       => RowOf(users, "username", resp.args[1].username).password
            = Hash(resp.args[1].password)
  /\ (resp.op = "User.update" /\ resp.outcome = "ok"
      /\ PasswordIn(resp.args[2]) # Undefined)
       => RowOf(users, "username", resp.args[1]).password
            = Hash(PasswordIn(resp.args[2])[1])

\* C23 witness: the password of u1 has been set to "new", the update has
\* returned the user without it, and the hash of "new" is stored
C23_Witness ==
  /\ resp.op = "User.update"
  /\ resp.outcome = "ok"
  /\ resp.args = <<"u1", << <<"password", "new">> >> >>
  /\ resp.result = [username |-> "u1", firstName |-> "U1F",
                    lastName |-> "U1L", email |-> "u1@email.com",
                    isAdmin |-> FALSE]
  /\ RowOf(users, "username", "u1").password = Hash("new")

C24_Step ==
  /\ resp'.op = "User.authenticate"
       => LET username == resp'.args[1]
              password == resp'.args[2]
          IN /\ resp'.outcome \in {"ok", "Unauthorized"}
             /\ resp'.outcome = "ok"
                  <=> \E u \in users : /\ u.username = username
                                       /\ Compare(password, u.password)
             /\ username \notin KeysOf(users, "username")
                  => resp'.outcome = "Unauthorized"
             /\ resp'.outcome = "ok"
                  => resp'.result =
                       UserProj(RowOf(users, "username", username))
             /\ store' = store
  /\ (resp'.op = "User.authenticate" /\ resp.outcome = "ok"
      /\ resp.op = "User.update" /\ PasswordIn(resp.args[2]) # Undefined
      /\ resp'.args[1] = resp.args[1])
       => (resp'.outcome = "ok"
             <=> resp'.args[2] = PasswordIn(resp.args[2])[1])
  /\ (resp'.op = "User.authenticate" /\ resp.outcome = "ok"
      /\ resp.op = "User.register"
      /\ resp'.args[1] = resp.args[1].username)
       => (resp'.outcome = "ok" <=> resp'.args[2] = resp.args[1].password)

\* C24: User.authenticate(username, password) succeeds if and only if the
\* user exists and the password is the one whose hash is stored for the user
\* now; an unknown username and a wrong password both fail with
\* Unauthorized; right after register the registered password and no other
\* authenticates, and right after an update that sets a password the new
\* password and no other authenticates.
C24_Authenticate == [][C24_Step]_vars

\* C24 witness: u1 has authenticated with the password "new" that an update
\* has set
C24_Witness ==
  /\ resp.op = "User.authenticate"
  /\ resp.outcome = "ok"
  /\ resp.args = <<"u1", "new">>
  /\ RowOf(users, "username", "u1").password = Hash("new")

(***************************************************************************)
(* The order of the checks of an update                                    *)
(***************************************************************************)
C25_Step ==
  resp'.op \in UpdateOps
  => /\ resp'.args[2] = <<>>
          => /\ resp'.outcome = "BadRequest"
             /\ resp'.queries = 0
             /\ store' = store
     /\ resp'.args[2] # <<>> => resp'.queries = 1
     /\ resp'.outcome = "NotFound" => resp'.args[2] # <<>>

\* C25: in every entity's update the check for an empty field set comes
\* before any statement is sent to the store: update(key, {}) fails with
\* BadRequest with no statement sent, whether the key exists or not, so
\* NotFound is only ever the outcome of an update that supplies a field, and
\* such an update sends exactly one statement.
C25_EmptyCheckFirst == [][C25_Step]_vars

\* C25 witness: the empty update of a company that does not exist has been
\* refused with BadRequest before any statement
C25_Witness ==
  /\ resp.op = "Company.update"
  /\ resp.args = <<"nope", <<>> >>
  /\ resp.outcome = "BadRequest"
  /\ resp.queries = 0
  /\ "nope" \notin KeysOf(companies, "handle")

(***************************************************************************)
(* The order of validation and lookup in PATCH /jobs/:id                   *)
(***************************************************************************)
C26_Step ==
  (http'.route = "PATCH /jobs/:id" /\ IsAdmin(IdentityOf(http'.req)))
  => /\ ~ValidJobUpdate(http'.req.body)
          => /\ http'.status = 400
             /\ store' = store
             /\ resp' = resp
     /\ ValidJobUpdate(http'.req.body)
          => /\ resp'.op = "Job.update"
             /\ resp'.args = <<http'.req.params.id, http'.req.body>>
             /\ http'.status = 404
                  <=> http'.req.params.id \notin KeysOf(jobs, "id")

\* C26: on PATCH /jobs/:id from an admin the body is validated before the
\* job is looked up: a body that fails the validation is answered 400 with no
\* model call and no change of the store, whether the job exists or not; only
\* a valid body reaches Job.update, which answers 404 exactly when the job
\* does not exist.
C26_ValidationBeforeLookup == [][C26_Step]_vars

\* C26 witness: the admin's patch with an invalid body of job 0, which does
\* not exist, has been answered 400
C26_Witness ==
  /\ http.route = "PATCH /jobs/:id"
  /\ http.req.headers.authorization = adminToken
  /\ http.req.params.id = 0
  /\ ~ValidJobUpdate(http.req.body)
  /\ 0 \notin KeysOf(jobs, "id")
  /\ http.status = 400

(***************************************************************************)
(* Company.create calls that run at the same time: each call is its        *)
(* duplicate check and then its INSERT, and the queries of different calls *)
(* interleave                                                              *)
(***************************************************************************)
Callers == 1..MaxCallers

RaceCompanies ==
  {[handle |-> "c1", name |-> TxtC1, description |-> "Desc1",
    numEmployees |-> Some(1), logoUrl |-> Some("http://c1.img")],
   [handle |-> "c1", name |-> TxtNew, description |-> "Desc1",
    numEmployees |-> Null, logoUrl |-> Null],
   [handle |-> "c2", name |-> TxtC2, description |-> "Desc2",
    numEmployees |-> Some(2), logoUrl |-> Some("http://c2.img")]}

CompanyCreateDuplicateCheckCall ==
  \E caller \in Callers, data \in RaceCompanies :
    CompanyCreateDuplicateCheck(caller, data) /\ UNCHANGED http

CompanyCreateInsertCall ==
  \E call \in inflight : CompanyCreateInsert(call) /\ UNCHANGED http

NextCreateRace ==
  \/ CompanyCreateDuplicateCheckCall
  \/ CompanyCreateInsertCall
  \/ CompanyRemoveCall

SpecCreateRace == Init /\ [][NextCreateRace]_vars

\* C27: for any interleaving of concurrent Company.create calls with the same
\* handle, exactly one call returns the new company and every other call
\* fails with BadRequest (duplicate company), never with a generic server
\* fault: a Company.create call ends either with the new company or with
\* BadRequest.
C27_CreateRaceIsBadRequest ==
  resp.op = "Company.create" => resp.outcome \in {"ok", "BadRequest"}

(***************************************************************************)
(* The gates and the store: requests to a route behind each gate, between  *)
(* them the user of the token is registered, removed, and made an admin    *)
(***************************************************************************)
AdminFlagUpdates == {<< <<"isAdmin", TRUE>> >>, << <<"isAdmin", FALSE>> >>}

AdminFlagUpdateCall ==
  \E u \in UsernameArgs, d \in AdminFlagUpdates :
    UserUpdate(u, d) /\ UNCHANGED <<inflight, http>>

NextGates ==
  \/ DeleteJobCall
  \/ DeleteCompanyCall
  \/ PatchUserCall
  \/ UserRegisterCall
  \/ UserRemoveCall
  \/ AdminFlagUpdateCall

SpecGates == InitKeys /\ [][NextGates]_vars

GatedRoutes == AdminRoutes \cup LoggedInRoutes \cup {"PATCH /users/:username"}

\* the decision of the route's gate, from the payload of the token and the
\* username in the path
GateAdmits(route, req) ==
  LET identity == IdentityOf(req)
  IN CASE route \in LoggedInRoutes -> identity # Undefined
       [] route \in AdminRoutes -> IsAdmin(identity)
       [] route = "PATCH /users/:username" ->
            /\ identity # Undefined
            /\ (identity[1].isAdmin
                \/ identity[1].username = req.params.username)

C28_Step ==
  http'.route \in GatedRoutes
  => /\ http'.status = 401 <=> ~GateAdmits(http'.route, http'.req)
     /\ (http.route = http'.route
         /\ http.req.headers = http'.req.headers
         /\ http.req.params = http'.req.params)
          => (http'.status = 401 <=> http.status = 401)

\* C28: the outcome of every authorization gate is a function only of the
\* decoded token payload (username, isAdmin) and the username in the path,
\* never of the store: a request is refused with 401 exactly when the gate's
\* decision on its token and path is a refusal, and the same token on the
\* same path is admitted or refused the same way before and after the user
\* row of its username is created, removed or has its admin flag changed.
C28_GatesIgnoreStore == [][C28_Step]_vars

\* C28 witness: the token of u1 has passed the gate of PATCH
\* /users/:username for u1 after the user u1 was removed: the answer is 404,
\* not 401
C28_Witness ==
  /\ http.route = "PATCH /users/:username"
  /\ http.req.headers.authorization = u1Token
  /\ http.req.params.username = "u1"
  /\ "u1" \notin KeysOf(users, "username")
  /\ http.status = 404

(***************************************************************************)
(* The frame of the operations: a store with two rows of every entity, of  *)
(* which the calls address the first                                       *)
(***************************************************************************)
InitFrame ==
  /\ companies =
       {[handle |-> "c1", name |-> TxtC1, description |-> "Desc1",
         num_employees |-> Some(1), logo_url |-> Some("http://c1.img")],
        [handle |-> "c2", name |-> TxtC2, description |-> "Desc2",
         num_employees |-> Some(2), logo_url |-> Some("http://c2.img")]}
  /\ jobs =
       {[id |-> 1, title |-> TxtJ1, salary |-> Some(1),
         equity |-> Some("0.1"), company_handle |-> "c1"],
        [id |-> MaxJobId + 1, title |-> TxtJ2, salary |-> Some(2),
         equity |-> Some("0.2"), company_handle |-> "c2"]}
  /\ users =
       {[username |-> "u1", password |-> Hash("password1"),
         first_name |-> "U1F", last_name |-> "U1L",
         email |-> "u1@email.com", is_admin |-> FALSE],
        [username |-> "u2", password |-> Hash("password2"),
         first_name |-> "U2F", last_name |-> "U2L",
         email |-> "u2@email.com", is_admin |-> FALSE]}
  /\ applications = {[username |-> "u1", job_id |-> 1],
                     [username |-> "u2", job_id |-> MaxJobId + 1]}
  /\ nextJobId = MaxJobId + 2
  /\ resp = NoResp
  /\ inflight = {}
  /\ http = NoRequest

UserAuthenticateCall ==
  \E u \in UsernameArgs, p \in {"password1", "wrong"} :
    UserAuthenticate(u, p) /\ UNCHANGED <<inflight, http>>

NextFrame ==
  \/ CompanyCreateCall
  \/ CompanyGetCall
  \/ CompanyUpdateCall
  \/ CompanyRemoveCall
  \/ JobGetCall
  \/ JobUpdateCall
  \/ JobRemoveCall
  \/ UserRegisterCall
  \/ UserGetCall
  \/ UserUpdateCall
  \/ UserRemoveCall
  \/ UserApplyToJobCall
  \/ UserAuthenticateCall

SpecFrame == InitFrame /\ [][NextFrame]_vars

\* the rows of the table with another key
Others(table, pk, key) == {r \in table : r[pk] # key}

\* the tables of the other entities, and the other rows of the updated one
C29_RestUnchanged(op, key) ==
  /\ UNCHANGED <<applications, nextJobId>>
  /\ IF IsCompanyOp(op)
     THEN /\ Others(companies', "handle", key)
               = Others(companies, "handle", key)
          /\ UNCHANGED <<jobs, users>>
     ELSE IF IsJobOp(op)
     THEN /\ Others(jobs', "id", key) = Others(jobs, "id", key)
          /\ UNCHANGED <<companies, users>>
     ELSE /\ Others(users', "username", key) = Others(users, "username", key)
          /\ UNCHANGED <<companies, jobs>>

C29_Step ==
  /\ (resp'.op \in UpdateOps /\ resp'.outcome = "ok")
       => LET op == resp'.op
              key == resp'.args[1]
              data == resp'.args[2]
          IN /\ C29_RestUnchanged(op, key)
             /\ KeysAfter(op) = KeysBefore(op)
             /\ ProjAfter(op, key) = Merge(ProjBefore(op, key), data)
             /\ op = "User.update"
                  => RowOf(users', "username", key).password =
                       IF PasswordIn(data) # Undefined
                       THEN Hash(PasswordIn(data)[1])
                       ELSE RowOf(users, "username", key).password
  /\ resp'.outcome \in {"BadRequest", "NotFound", "Unauthorized"}
       => store' = store

\* C29: a successful update(key, data) changes only the supplied fields of
\* the row with that key: the row's other fields, every other row of the same
\* entity and every row of the other entities are unchanged; an operation of
\* any kind that fails with BadRequest, NotFound or Unauthorized leaves the
\* whole store unchanged.
C29_Frame == [][C29_Step]_vars

\* C29 witness: the update of job 1 has set its salary to null; job 2 and
\* the rows of the other entities are as they were
C29_Witness ==
  /\ resp.op = "Job.update"
  /\ resp.outcome = "ok"
  /\ resp.args[1] = 1
  /\ RowOf(jobs, "id", 1).salary = Null
  /\ RowOf(jobs, "id", 1).title = TxtJ1
  /\ [id |-> MaxJobId + 1, title |-> TxtJ2, salary |-> Some(2),
      equity |-> Some("0.2"), company_handle |-> "c2"] \in jobs
  /\ Cardinality(companies) = 2
  /\ Cardinality(users) = 2

(***************************************************************************)
(* Updates that run at the same time: each call builds its statement and   *)
(* then sends it, and the steps of different calls interleave              *)
(***************************************************************************)
JobRaceUpdates ==
  {<<>>,
   << <<"title", TxtNew>> >>,
   << <<"equity", Some("0")>>, <<"salary", Null>> >>}

CompanyUpdateBuildCall ==
  \E caller \in Callers, handle \in HandleArgs, data \in CompanyUpdates :
    CompanyUpdateBuild(caller, handle, data) /\ UNCHANGED http

CompanyUpdateExecuteCall ==
  \E call \in inflight : CompanyUpdateExecute(call) /\ UNCHANGED http

JobUpdateBuildCall ==
  \E caller \in Callers, id \in JobIdArgs, data \in JobRaceUpdates :
    JobUpdateBuild(caller, id, data) /\ UNCHANGED http

JobUpdateExecuteCall ==
  \E call \in inflight : JobUpdateExecute(call) /\ UNCHANGED http

NextUpdateRace ==
  \/ CompanyUpdateBuildCall
  \/ CompanyUpdateExecuteCall
  \/ JobUpdateBuildCall
  \/ JobUpdateExecuteCall

SpecUpdateRace == InitKeys /\ [][NextUpdateRace]_vars

FieldsOf(data) == {data[i][1] : i \in DOMAIN data}

\* the projection carries the values of data in the fields of data
Carries(proj, data) == \A i \in DOMAIN data : proj[data[i][1]] = data[i][2]

C30_Step ==
  /\ (resp'.op \in {"Company.update", "Job.update"} /\ resp'.outcome = "ok")
       => LET op == resp'.op
              key == resp'.args[1]
          IN /\ KeysAfter(op) = KeysBefore(op)
             /\ ProjAfter(op, key) = Merge(ProjBefore(op, key), resp'.args[2])
  /\ (/\ resp.op \in {"Company.update", "Job.update"}
      /\ resp.outcome = "ok"
      /\ resp'.op = resp.op
      /\ resp'.args[1] = resp.args[1]
      /\ resp.args[1] \in KeysBefore(resp.op)
      /\ inflight' # inflight
      /\ FieldsOf(resp.args[2]) \cap FieldsOf(resp'.args[2]) = {})
       => /\ resp'.outcome = "ok"
          /\ Carries(ProjAfter(resp.op, resp.args[1]), resp.args[2])
          /\ Carries(ProjAfter(resp.op, resp.args[1]), resp'.args[2])

\* C30: no update is lost between partial updates of disjoint fields: the
\* statement of an update sets the supplied fields of the row and leaves its
\* other fields as they are when the statement runs, whenever the call built
\* it; so when two calls on the same existing key with disjoint field sets
\* send their statements one after the other, in either order and however
\* their steps interleave, the stored row carries the values of both.
C30_NoLostUpdate == [][C30_Step]_vars

\* C30 witness: the statements of two calls on company c1 have run, no call
\* is under way, and c1 carries the new name of the one and the nulls of the
\* other
C30_Witness ==
  /\ resp.op = "Company.update"
  /\ resp.outcome = "ok"
  /\ inflight = {}
  /\ \E c \in companies : /\ c.handle = "c1"
                          /\ c.name = TxtNew
                          /\ c.num_employees = Null
                          /\ c.logo_url = Null

====
